---- MODULE Spec2Model ----
(***************************************************************************)
(* Model of the benchmark engine of webui_nim_benchmark:                   *)
(*   - the Load Executor (BenchmarkService.execute_*_benchmark and the     *)
(*     make_request closure of each backend variant), and                  *)
(*   - the Auto-Tuner (AutoBenchmarkService) with its HTTP endpoints.      *)
(* The executor runs on one asyncio event loop: the code between two       *)
(* awaits is one atomic step.  The requests of a run are anonymous         *)
(* (make_request takes no argument), so they are counted per position; a   *)
(* request that is reading a streamed answer is kept with what it has read.*)
(***************************************************************************)
EXTENDS Integers, Sequences, FiniteSets, Bags, TLC

\* ------------------------------------------------------------------ bounds
MaxRequests == 3
MaxConcurrency == 2
MaxBatch == 2
MaxChunks == 2

\* ------------------------------------------------------- optional values
None == <<>>
Some(x) == <<x>>
IsSome(o) == o # <<>>
Get(o) == o[1]
Opt(S) == {None} \cup {Some(x) : x \in S}

Min(a, b) == IF a <= b THEN a ELSE b

RECURSIVE SumSeq(_)
SumSeq(s) == IF s = <<>> THEN 0 ELSE Head(s) + SumSeq(Tail(s))

\* ------------------------------------------------------------ input sets
Backends == {"ollama", "vllm", "nim"}

\* Generated texts, as character sequences ("a" a letter, " " a blank).
Texts == { <<>>, <<" ">>, <<"a">>, <<"a", " ", "a">>, <<" ", "a", " ", " ", "a">> }

\* len(text.split()): the number of maximal runs of non-blank characters.
RECURSIVE WordCountFrom(_, _)
WordCountFrom(text, inWord) ==
    IF text = <<>> THEN 0
    ELSE IF Head(text) = " " THEN WordCountFrom(Tail(text), FALSE)
    ELSE (IF inWord THEN 0 ELSE 1) + WordCountFrom(Tail(text), TRUE)

WordCount(text) == WordCountFrom(text, FALSE)

TokenCounts == {0, 3}
EvalDurations == {0, 2000000000}
\* Request latencies in ms, as measured by the wall clock.
LatencyValues == {10}

\* --------------------------------------------------- replies of the backend
\* What the backend does with one generation request:
\*   "neterr"  the connection fails or the 120 s timeout expires
\*   "status"  it answers with a status other than 200
\*   "badjson" it answers 200 with a body that is not JSON
\*   "json"    it answers 200 with one JSON object
\*   "stream"  it answers 200 with a sequence of lines
OllamaBodies ==
    [eval_count : Opt(TokenCounts), eval_duration : Opt(EvalDurations), response : Opt(Texts)]

ChoicesValues == {<<>>} \cup {<<t>> : t \in Opt(Texts)}

OpenAIBodies ==
    [choices : Opt(ChoicesValues), usage : Opt(Opt(TokenCounts))]

ChunkTexts == { <<>>, <<"a">> }

OllamaChunks ==
    {[kind |-> "garbage"], [kind |-> "abort"]}
    \cup [kind : {"chunk"}, response : Opt(ChunkTexts), eval_count : Opt(TokenCounts)]

VllmChunks ==
    {[kind |-> "skip"], [kind |-> "garbage"], [kind |-> "abort"]}
    \cup [kind : {"chunk"}, choices : Opt({<<>>} \cup {<<t>> : t \in Opt(ChunkTexts)})]

SeqsUpTo(S, n) == UNION {[1..k -> S] : k \in 0..n}

FailureReplies == {[kind |-> "neterr"], [kind |-> "status", status |-> 500], [kind |-> "badjson"]}

\* The replies a backend variant can give to a request sent with or without streaming.
\* The NIM variant never asks for a stream.
Replies(backend, streaming) ==
    FailureReplies \cup
    (CASE backend = "ollama" /\ streaming ->
            [kind : {"stream"}, chunks : SeqsUpTo(OllamaChunks, MaxChunks)]
       [] backend = "ollama" /\ ~streaming -> [kind : {"json"}, body : OllamaBodies]
       [] backend = "vllm" /\ streaming ->
            [kind : {"stream"}, chunks : SeqsUpTo(VllmChunks, MaxChunks)]
       [] OTHER -> [kind : {"json"}, body : OpenAIBodies])

\* ------------------------------------------------ the request driver
\* The effect of one make_request call on the run's accumulators:
\*   ok       the success path ran to its end (latencies.append)
\*   bumped   success_count was incremented
\*   tokens   the amount added to total_tokens
\*   recorded the amount passed to metrics_collector.record_tokens
\*   ttft     the number of samples appended to ttfts
\*   itl      the number of samples appended to inter_token_latencies
Failed(recorded, ttft, bumped) ==
    [ok |-> FALSE, bumped |-> bumped, tokens |-> 0, recorded |-> recorded, ttft |-> ttft, itl |-> 0]

Succeeded(tokens, recorded, ttft, itl) ==
    [ok |-> TRUE, bumped |-> TRUE, tokens |-> tokens, recorded |-> recorded, ttft |-> ttft, itl |-> itl]

\* Ollama, non-streaming.  model_tokens_per_second and model_tokens_generated are
\* assigned inside make_request without a nonlocal declaration, so reading them in
\* the eval_duration branch raises UnboundLocalError, after record_tokens ran.
OllamaJson(body) ==
    IF IsSome(body.eval_count)
    THEN IF IsSome(body.eval_duration)
         THEN Failed(Get(body.eval_count), 0, FALSE)
         ELSE Succeeded(Get(body.eval_count), Get(body.eval_count), 1, 0)
    ELSE LET text == IF IsSome(body.response) THEN Get(body.response) ELSE <<>>
         IN Succeeded(WordCount(text), WordCount(text), 1, 0)

\* Ollama, streaming: one pass over the lines.
OllamaChunkStep(st, chunk) ==
    IF st.dead \/ chunk.kind = "garbage" THEN st
    ELSE IF chunk.kind = "abort" THEN [st EXCEPT !.dead = TRUE]
    ELSE LET content == IsSome(chunk.response) /\ Get(chunk.response) # <<>>
             st1 == IF ~st.first /\ content
                    THEN [st EXCEPT !.first = TRUE, !.ttft = @ + 1] ELSE st
             st2 == IF content THEN [st1 EXCEPT !.stamps = @ + 1] ELSE st1
         IN IF IsSome(chunk.eval_count)
            THEN [st2 EXCEPT !.tokens = Get(chunk.eval_count),
                             !.recorded = @ + (IF Get(chunk.eval_count) > 0
                                               THEN Get(chunk.eval_count) ELSE 0)]
            ELSE IF content
                 THEN [st2 EXCEPT !.tokens = @ + 1, !.recorded = @ + 1]
                 ELSE st2

\* vLLM, streaming.  An empty choices list raises IndexError while no first token
\* has been seen; the test is short-circuited afterwards.
VllmChunkStep(st, chunk) ==
    IF st.dead \/ chunk.kind \in {"garbage", "skip"} THEN st
    ELSE IF chunk.kind = "abort" THEN [st EXCEPT !.dead = TRUE]
    ELSE LET has == IsSome(chunk.choices)
             list == IF has THEN Get(chunk.choices) ELSE <<>>
             text == IF list # <<>> /\ IsSome(list[1]) THEN Get(list[1]) ELSE <<>>
         IN IF ~st.first /\ has /\ list = <<>>
            THEN [st EXCEPT !.dead = TRUE]
            ELSE LET st1 == IF ~st.first /\ text # <<>>
                            THEN [st EXCEPT !.first = TRUE, !.ttft = @ + 1] ELSE st
                 IN IF text # <<>>
                    THEN [st1 EXCEPT !.tokens = @ + 1, !.recorded = @ + 1, !.stamps = @ + 1]
                    ELSE st1

StreamStart ==
    [tokens |-> 0, first |-> FALSE, stamps |-> 0, recorded |-> 0, ttft |-> 0, dead |-> FALSE]

RECURSIVE StreamFold(_, _, _)
StreamFold(backend, st, chunks) ==
    IF chunks = <<>> THEN st
    ELSE StreamFold(backend,
                    IF backend = "ollama" THEN OllamaChunkStep(st, Head(chunks))
                    ELSE VllmChunkStep(st, Head(chunks)),
                    Tail(chunks))

StreamOutcome(backend, chunks) ==
    LET st == StreamFold(backend, StreamStart, chunks)
    IN IF st.dead THEN Failed(st.recorded, st.ttft, FALSE)
       ELSE Succeeded(st.tokens, st.recorded, st.ttft,
                      IF backend = "ollama" /\ st.stamps > 1 THEN 1 ELSE 0)

\* vLLM, non-streaming.  tokens is bound only by the choices and the usage branch;
\* with neither, success_count += 1 runs and total_tokens += tokens raises.
VllmJson(body) ==
    LET list == IF IsSome(body.choices) THEN Get(body.choices) ELSE <<>>
        text == IF list # <<>> /\ IsSome(list[1]) THEN Get(list[1]) ELSE <<>>
        usage == IsSome(body.usage) /\ IsSome(Get(body.usage))
        fromText == IF list # <<>> THEN WordCount(text) ELSE 0
        fromUsage == IF usage THEN Get(Get(body.usage)) ELSE 0
    IN IF list = <<>> /\ ~usage
       THEN Failed(0, 1, TRUE)
       ELSE Succeeded(IF usage THEN fromUsage ELSE fromText, fromText + fromUsage, 1, 0)

\* NIM: always one JSON body.
NimJson(body) ==
    LET list == IF IsSome(body.choices) THEN Get(body.choices) ELSE <<>>
        text == IF list # <<>> /\ IsSome(list[1]) THEN Get(list[1]) ELSE <<>>
        usage == IsSome(body.usage) /\ IsSome(Get(body.usage))
        tokens == IF usage THEN Get(Get(body.usage)) ELSE WordCount(text)
    IN Succeeded(tokens, tokens, 1, 0)

\* The lines of a 200 answer that is read as a stream: a body that is not JSON is
\* a line json.loads fails on.
LinesOf(reply) ==
    IF reply.kind = "stream" THEN reply.chunks ELSE << [kind |-> "garbage"] >>

\* make_request from the reply to its effect.  A body that is not JSON fails
\* response.json(); read as a stream, its line is skipped (except
\* json.JSONDecodeError: continue) and the success path runs with 0 tokens.
Process(backend, streaming, reply) ==
    CASE reply.kind \in {"neterr", "status"} -> Failed(0, 0, FALSE)
      [] reply.kind = "badjson" ->
            IF streaming /\ backend # "nim"
            THEN StreamOutcome(backend, LinesOf(reply)) ELSE Failed(0, 0, FALSE)
      [] reply.kind = "stream" -> StreamOutcome(backend, reply.chunks)
      [] reply.kind = "json" /\ backend = "ollama" -> OllamaJson(reply.body)
      [] reply.kind = "json" /\ backend = "vllm" -> VllmJson(reply.body)
      [] OTHER -> NimJson(reply.body)

\* Every effect a request can have, per variant and mode.
OutcomeTable ==
    [b \in Backends, s \in BOOLEAN |-> {Process(b, s, r) : r \in Replies(b, s)}]

\* ------------------------------------------------------ the Load Executor
VARIABLES
    config,            \* the run's configuration (backend, stream, batch_size, ...)
    script,            \* <<>> (the backend is free), or the list of the replies the
                       \*   backend is set to choose from
    exec_pc,           \* "called" (create_benchmark or _run_benchmark_test entered),
                       \*   "lookup" (_run_benchmark_test awaits get_model_info),
                       \*   "rejected" (it raised before the executor), "idle" (the
                       \*   executor is about to be entered), "running", "returned",
                       \*   "raised", "aborted"
    use_streaming,     \* local use_streaming
    batch_size,        \* local batch_size (effective)
    sem_value,         \* free slots of the asyncio.Semaphore
    batches,           \* local batches: the lists of request indices
    batch_idx,         \* number of batches handed to asyncio.gather so far
    launched,          \* the single gather of the non-batched branch was entered
    n_pending,         \* make_request tasks created and waiting at the semaphore
    n_inflight,        \* tasks holding a slot, HTTP call issued, reply not processed
    n_closing,         \* tasks holding a slot, reply processed, leaving the with-blocks
    n_done,            \* tasks that returned
    success_count,
    total_tokens,
    latencies,
    n_ttfts,           \* len(ttfts)
    n_itls,            \* len(inter_token_latencies)
    collector_running, \* metrics_collector's sampling loop is started
    recorded_tokens,   \* metrics_collector.total_tokens
    result,            \* <<>>, or <<metrics>> once the run returned
    n_issued,          \* history: HTTP calls issued in this run
    n_failed,          \* history: make_request calls that ended without a success
    reading,           \* the bag of the in-flight requests that are reading a
                       \*   streamed answer, each with its locals (tokens,
                       \*   first_token_time set, len(token_timestamps)), the reply
                       \*   it reads (k: index in script, 0 for a free backend)
                       \*   and the number of lines it has read (p)
    cancelled,         \* the task awaiting execute_benchmark was cancelled at the
                       \*   gather
    gather_exc         \* the future of the gather holds the CancelledError of a
                       \*   request that has ended

execVars ==
    << config, script, exec_pc, use_streaming, batch_size, sem_value, batches, batch_idx,
       launched, n_pending, n_inflight, n_closing, n_done, success_count, total_tokens,
       latencies, n_ttfts, n_itls, collector_running, recorded_tokens, result,
       n_issued, n_failed, reading, cancelled, gather_exc >>

\* ------------------------------------------------ the Auto-Tuner's state
VARIABLES
    is_running,        \* AutoBenchmarkService.is_running
    should_stop,       \* AutoBenchmarkService.should_stop
    current_results,   \* <<>> for the initial {}, else <<[tests, optimal_config, status]>>
    req,               \* per start request: "new", "started", "rejected", "searching",
                       \*   "crashed" (its background call raised "already running"), "done"
    stop_reply,        \* the status answered to the last stop request, "none" before
    phase,             \* where the running search is: "none", "probe", "streaming",
                       \*   "batch", "token"
    loop_i,            \* index of the current iteration of the phase's (outer) loop
    loop_j,            \* index of the current iteration of the batch sweep's inner loop
    token_sizes,       \* local token_sizes
    max_supported_tokens, \* local max_supported_tokens, 0 while it is unset
    probe_failed,      \* history: tests of the capacity probe that raised, in the
                       \*   current search
    batch_results,     \* local batch_results
    best_config,       \* local best_config of the token-size phase, <<>> when unset
    test,              \* <<>>, or <<config>> of the _run_benchmark_test call in flight
    tests_started,     \* history: tests started by the current search
    model_id,          \* the model id the search was started with, as the list of the
                       \*   parts between its "/" characters; <<>> before a search
    n_saved,           \* history: result files written by the current search
    last_saved         \* history: the session in the last of them, <<>> when none

autoVars ==
    << is_running, should_stop, current_results, req, stop_reply, phase, loop_i, loop_j,
       token_sizes, max_supported_tokens, probe_failed,
       batch_results, best_config, test, tests_started, model_id, n_saved,
       last_saved >>

\* The Telemetry Sampler (MetricsCollector) and the runs that use it.
VARIABLES
    running,            \* self.running
    collector_thread,   \* self.collector_thread: None, or the thread it refers to
    th,                 \* th[t]: where sampling thread t is in _collection_loop:
                        \*   "unborn", "check", "tick", "calc", "snap", "hist", "dead"
    lock_held,          \* self._lock is held by the event loop thread
    tokens_count,       \* self.tokens_count
    tokens_last_window, \* self.tokens_last_window
    peak_tps,           \* self.peak_tps
    peak_gpu_util,      \* self.peak_gpu_util
    peak_gpu_mem,       \* self.peak_gpu_mem
    caller_pc,          \* where the event loop thread is inside a collector call
    caller_run,         \* the run that call is made for (0: none)
    tick_in_join,       \* the thread that is being joined was inside a tick when
                        \*   the join began: part of the two seconds went to it
    rec_count,          \* record_tokens: the amount being recorded
    rec_tmp,            \* record_tokens: the value of tokens_count it has read
    run_pc,             \* run_pc[r]: where executor run r is
    recorded_sum,       \* history: the amounts recorded since the last reset
    windows_sum,        \* history: the tokens of the windows calculate_tps has
                        \*   derived a rate for since the last reset
    derived_max,        \* history: the highest rate derived since the last reset
    probe,              \* history: None, or what nvidia-smi did in the last call of
                        \*   get_gpu_metrics of a collect_metrics that has not gone
                        \*   through calculate_tps
    gpu_seen,           \* gpu_seen[a]: the GPUs queried so far by the collect_metrics
                        \*   that a is in (a = 0: the event loop thread, else
                        \*   sampling thread a)
    fresh,              \* history: reset_peaks ran and no tick or record since
    peaks_reply         \* the last answer of get_peaks, until the next collector call

threadVars == << running, collector_thread, th >>

counterVars == << tokens_count, tokens_last_window, peak_tps, peak_gpu_util, peak_gpu_mem >>

callerVars == << lock_held, caller_pc, caller_run, rec_count, rec_tmp >>

tickVars == << windows_sum, derived_max, probe, gpu_seen >>

samplerVars ==
    << threadVars, counterVars, callerVars, run_pc, recorded_sum, tickVars, fresh,
       peaks_reply, tick_in_join >>

VARIABLE
    snapshot            \* the metrics dict last built by collect_metrics: None, or
                        \*   its peak_tps

\* One streaming request of the Ollama executor, line by line, with the wall clock.
VARIABLES
    now,                   \* datetime.now(), in ms
    st_pc,                 \* "idle", "sent" (the POST awaits its answer), "reading",
                           \*   "done" (success path), "failed"
    req_start,             \* local req_start
    first_token_time,      \* local first_token_time: None, or the time
    token_timestamps,      \* local token_timestamps
    ttfts,                 \* the run's ttfts list
    inter_token_latencies, \* the run's inter_token_latencies list
    stream_state,          \* the token side of the request (see OllamaChunkStep)
    arrivals,              \* history: the lines read so far, each with the time it
                           \*   was read at
    started_at             \* history: the time at which the request passed the
                           \*   semaphore and was started

streamVars ==
    << now, st_pc, req_start, first_token_time, token_timestamps, ttfts,
       inter_token_latencies, stream_state, arrivals, started_at >>

Configs ==
    [backend : Backends, stream : BOOLEAN, batch_size : 1..MaxBatch,
     total_requests : 0..MaxRequests, concurrency_level : 1..MaxConcurrency]

\* range(lo, hi) as a list.
RangeList(lo, hi) == [j \in 1..(IF hi > lo THEN hi - lo ELSE 0) |-> lo + j - 1]

\* len(range(0, n, b))
NumBatches(n, b) == IF n <= 0 THEN 0 ELSE (n + b - 1) \div b

\* Mutant of Batches: the last batch is not clipped to total_requests.
BatchesUnclipped(n, b) ==
    [k \in 1..NumBatches(n, b) |-> RangeList((k - 1) * b, (k - 1) * b + b)]

\* [list(range(i, min(i + batch_size, total_requests)))
\*      for i in range(0, total_requests, batch_size)]
Batches(n, b) ==
    [k \in 1..NumBatches(n, b) |-> RangeList((k - 1) * b, Min((k - 1) * b + b, n))]

\* Only the Ollama executor has the batched branch:
\*     if not use_streaming and batch_size > 1
UsesBatches ==
    config.backend = "ollama" /\ ~use_streaming /\ batch_size > 1

Outstanding == n_pending + n_inflight + n_closing

\* Mutant of GatherDone: the gather returns once every task has started.
GatherAllStarted == n_pending = 0

\* await asyncio.gather(*tasks) returns when every task it was given has returned.
GatherDone == Outstanding = 0

\* Mutant of SlotFree: the gate is never closed.
SlotAlwaysFree == TRUE

\* async with semaphore: a task enters when a slot is free.
SlotFree == sem_value > 0

\* Mutant of NoSuccess: the zero-success check is missing.
NoSuccessUnchecked == FALSE

\* if not latencies: raise Exception("No successful requests completed")
NoSuccess == latencies = <<>>

\* No streaming request is being followed.
StreamIdle ==
    /\ now = 0 /\ st_pc = "idle" /\ req_start = 0 /\ first_token_time = None
    /\ token_timestamps = <<>> /\ ttfts = <<>> /\ inter_token_latencies = <<>>
    /\ stream_state = StreamStart /\ arrivals = <<>> /\ started_at = 0

\* No run has been entered: the locals of the executor are unset, the sampler of
\* the module is not started.
ExecRest ==
    /\ use_streaming = FALSE /\ batch_size = 1 /\ sem_value = 0
    /\ batches = <<>> /\ batch_idx = 0 /\ launched = FALSE
    /\ n_pending = 0 /\ n_inflight = 0 /\ n_closing = 0 /\ n_done = 0
    /\ success_count = 0 /\ total_tokens = 0 /\ latencies = <<>>
    /\ n_ttfts = 0 /\ n_itls = 0 /\ collector_running = FALSE
    /\ result = <<>> /\ n_issued = 0 /\ n_failed = 0
    /\ reading = EmptyBag /\ cancelled = FALSE /\ gather_exc = FALSE

ExecIdle == exec_pc = "idle" /\ recorded_tokens = 0 /\ ExecRest

\* Mutant of EffectiveBatchSize: the configured batch size, whatever the mode.
ConfiguredBatchSize(cfg) == IF cfg.backend = "ollama" THEN cfg.batch_size ELSE 1

\* batch_size = config.get('batch_size', 1) if not use_streaming else 1; the vLLM
\* and NIM executors have no batch size.
EffectiveBatchSize(cfg) ==
    IF cfg.backend = "ollama" /\ ~cfg.stream THEN cfg.batch_size ELSE 1

\* execute_*_benchmark up to the first gather: reset and start the sampler, zero the
\* accumulators, fix the mode, create the semaphore and, when batching, the batches.
Begin ==
    /\ exec_pc = "idle"
    /\ exec_pc' = "running"
    /\ recorded_tokens' = 0
    /\ collector_running' = TRUE
    /\ success_count' = 0 /\ total_tokens' = 0 /\ latencies' = <<>>
    /\ n_ttfts' = 0 /\ n_itls' = 0
    /\ use_streaming' = (config.backend # "nim" /\ config.stream)
    /\ batch_size' = EffectiveBatchSize(config)
    /\ sem_value' = config.concurrency_level
    /\ batches' = IF config.backend = "ollama" /\ ~config.stream
                     /\ EffectiveBatchSize(config) > 1
                  THEN Batches(config.total_requests, EffectiveBatchSize(config)) ELSE <<>>
    /\ UNCHANGED << config, script, batch_idx, launched, n_pending, n_inflight, n_closing,
                    n_done, result, n_issued, n_failed,
                    reading, cancelled, gather_exc >>
    /\ UNCHANGED autoVars
    /\ UNCHANGED << samplerVars, snapshot, streamVars >>

\* for batch in batches: batch_tasks = [make_request() for _ in batch]; gather
LaunchBatch ==
    /\ exec_pc = "running" /\ UsesBatches
    /\ ~cancelled
    /\ batch_idx < Len(batches)
    /\ GatherDone
    /\ batch_idx' = batch_idx + 1
    /\ n_pending' = Len(batches[batch_idx + 1])
    /\ UNCHANGED << config, script, exec_pc, use_streaming, batch_size, sem_value, batches,
                    launched, n_inflight, n_closing, n_done, success_count, total_tokens,
                    latencies, n_ttfts, n_itls, collector_running, recorded_tokens, result,
                    n_issued, n_failed,
                    reading, cancelled, gather_exc >>
    /\ UNCHANGED autoVars
    /\ UNCHANGED << samplerVars, snapshot, streamVars >>

\* tasks = [make_request() for _ in range(config['total_requests'])]; gather
LaunchAll ==
    /\ exec_pc = "running" /\ ~UsesBatches
    /\ ~cancelled
    /\ ~launched
    /\ launched' = TRUE
    /\ n_pending' = config.total_requests
    /\ UNCHANGED << config, script, exec_pc, use_streaming, batch_size, sem_value, batches,
                    batch_idx, n_inflight, n_closing, n_done, success_count, total_tokens,
                    latencies, n_ttfts, n_itls, collector_running, recorded_tokens, result,
                    n_issued, n_failed,
                    reading, cancelled, gather_exc >>
    /\ UNCHANGED autoVars
    /\ UNCHANGED << samplerVars, snapshot, streamVars >>

\* A task passes the semaphore and issues its HTTP call.
Acquire ==
    /\ exec_pc = "running"
    /\ ~cancelled
    /\ n_pending > 0
    /\ SlotFree
    /\ n_pending' = n_pending - 1
    /\ sem_value' = sem_value - 1
    /\ n_inflight' = n_inflight + 1
    /\ n_issued' = n_issued + 1
    /\ UNCHANGED << config, script, exec_pc, use_streaming, batch_size, batches, batch_idx,
                    launched, n_closing, n_done, success_count, total_tokens, latencies,
                    n_ttfts, n_itls, collector_running, recorded_tokens, result, n_failed,
                    reading, cancelled, gather_exc >>
    /\ UNCHANGED autoVars
    /\ UNCHANGED << samplerVars, snapshot, streamVars >>

\* The reply is a 200 answer that make_request reads line by line.
Streamed(reply) == use_streaming /\ reply.kind \in {"stream", "badjson"}

\* The outcomes of the replies make_request processes without a suspension: every
\* reply of a run that does not stream, and the failures before the first line of
\* one that does.
WholeOutcomes ==
    IF script = <<>>
    THEN IF use_streaming
         THEN {Process(config.backend, TRUE, r) :
                  r \in {x \in FailureReplies : x.kind # "badjson"}}
         ELSE OutcomeTable[config.backend, FALSE]
    ELSE {Process(config.backend, use_streaming, script[k]) :
             k \in {x \in DOMAIN script : ~Streamed(script[x])}}

\* In-flight requests that have not read a line of a stream.
Unread == n_inflight - BagCardinality(reading)

\* The reply arrives and make_request processes it, up to the end of its try block.
Respond ==
    /\ exec_pc = "running"
    /\ ~cancelled
    /\ Unread > 0
    /\ \E o \in WholeOutcomes, lat \in LatencyValues :
          /\ success_count' = success_count + (IF o.bumped THEN 1 ELSE 0)
          /\ total_tokens' = total_tokens + o.tokens
          /\ latencies' = IF o.ok THEN Append(latencies, lat) ELSE latencies
          /\ n_ttfts' = n_ttfts + o.ttft
          /\ n_itls' = n_itls + o.itl
          /\ recorded_tokens' = recorded_tokens + o.recorded
          /\ n_failed' = n_failed + (IF o.ok THEN 0 ELSE 1)
    /\ n_inflight' = n_inflight - 1
    /\ n_closing' = n_closing + 1
    /\ UNCHANGED << config, script, exec_pc, use_streaming, batch_size, sem_value, batches,
                    batch_idx, launched, n_pending, n_done, collector_running, result,
                    n_issued, reading, cancelled, gather_exc >>
    /\ UNCHANGED autoVars
    /\ UNCHANGED << samplerVars, snapshot, streamVars >>

\* The locals of a request that is about to read the first line of reply k.
ReaderStart(k) == [tokens |-> 0, first |-> FALSE, stamps |-> 0, k |-> k, p |-> 0]

\* The requests that can read on: those that have read a line, and one that has
\* its 200 answer and has read none.
Readers ==
    BagToSet(reading) \cup
    (IF use_streaming /\ Unread > 0
     THEN {ReaderStart(k) :
              k \in (IF script = <<>> THEN {0}
                     ELSE {x \in DOMAIN script : Streamed(script[x])})}
     ELSE {})

\* The lines that can come next for reader r, none at the end of its stream.
NextLines(r) ==
    IF r.k = 0
    THEN IF r.p < MaxChunks
         THEN (IF config.backend = "ollama" THEN OllamaChunks ELSE VllmChunks) ELSE {}
    ELSE IF r.p < Len(LinesOf(script[r.k])) THEN {LinesOf(script[r.k])[r.p + 1]} ELSE {}

\* The stream of reader r can end here.
AtEnd(r) == IF r.k = 0 THEN TRUE ELSE r.p = Len(LinesOf(script[r.k]))

\* The body of `async for line in response.content` for one line.
ChunkStep(backend, st, chunk) ==
    IF backend = "ollama" THEN OllamaChunkStep(st, chunk) ELSE VllmChunkStep(st, chunk)

\* reading without reader r (a reader that has read no line is not in the bag).
Without(r) == IF BagIn(r, reading) THEN reading (-) SetToBag({r}) ELSE reading

\* One line of a streamed answer arrives: ttfts and the sampler's counter are
\* written at once; the request then waits for the next line, or an exception
\* (the connection breaks, IndexError on an empty choices list) ends it.
ReadLine ==
    /\ exec_pc = "running"
    /\ ~cancelled
    /\ \E r \in Readers : \E chunk \in NextLines(r) :
          LET st == ChunkStep(config.backend,
                              [StreamStart EXCEPT !.tokens = r.tokens, !.first = r.first,
                                                  !.stamps = r.stamps],
                              chunk)
          IN /\ recorded_tokens' = recorded_tokens + st.recorded
             /\ n_ttfts' = n_ttfts + st.ttft
             /\ IF st.dead
                THEN /\ reading' = Without(r)
                     /\ n_inflight' = n_inflight - 1
                     /\ n_closing' = n_closing + 1
                     /\ n_failed' = n_failed + 1
                ELSE /\ reading' = Without(r) (+)
                            SetToBag({[tokens |-> st.tokens, first |-> st.first,
                                       stamps |-> st.stamps, k |-> r.k, p |-> r.p + 1]})
                     /\ UNCHANGED << n_inflight, n_closing, n_failed >>
    /\ UNCHANGED << config, script, exec_pc, use_streaming, batch_size, sem_value, batches,
                    batch_idx, launched, n_pending, n_done, success_count, total_tokens,
                    latencies, n_itls, collector_running, result, n_issued, cancelled, gather_exc >>
    /\ UNCHANGED autoVars
    /\ UNCHANGED << samplerVars, snapshot, streamVars >>

\* The stream ends: the inter-token sample (Ollama, more than one token time),
\* then the success path.
EndOfStream ==
    /\ exec_pc = "running"
    /\ ~cancelled
    /\ \E r \in Readers, lat \in LatencyValues :
          /\ AtEnd(r)
          /\ n_itls' = n_itls + (IF config.backend = "ollama" /\ r.stamps > 1 THEN 1 ELSE 0)
          /\ success_count' = success_count + 1
          /\ total_tokens' = total_tokens + r.tokens
          /\ latencies' = Append(latencies, lat)
          /\ reading' = Without(r)
    /\ n_inflight' = n_inflight - 1
    /\ n_closing' = n_closing + 1
    /\ UNCHANGED << config, script, exec_pc, use_streaming, batch_size, sem_value, batches,
                    batch_idx, launched, n_pending, n_done, n_ttfts, collector_running,
                    recorded_tokens, result, n_issued, n_failed, cancelled, gather_exc >>
    /\ UNCHANGED autoVars
    /\ UNCHANGED << samplerVars, snapshot, streamVars >>

\* Mutant of StopCollector: the exception leaves the function past the sampler.
StopSkipped == UNCHANGED collector_running

\* finally: metrics_collector.stop_collector()
StopCollector == collector_running' = FALSE

\* Mutant of Release: the task returns without giving its slot back.
ReleaseKeepsSlot ==
    /\ exec_pc \in {"running", "aborted"}
    /\ n_closing > 0
    /\ n_closing' = n_closing - 1
    /\ n_done' = n_done + 1
    /\ gather_exc' = (gather_exc \/ cancelled)
    /\ UNCHANGED << config, script, exec_pc, use_streaming, batch_size, sem_value, batches,
                    batch_idx, launched, n_pending, n_inflight, success_count, total_tokens,
                    latencies, n_ttfts, n_itls, collector_running, recorded_tokens, result,
                    n_issued, n_failed, reading, cancelled >>
    /\ UNCHANGED autoVars
    /\ UNCHANGED << samplerVars, snapshot, streamVars >>

\* The task leaves "async with semaphore" and returns, also after the run was left.
\* The request of a cancelled run ends as cancelled: the done callback of the gather
\* puts its CancelledError in the future execute_benchmark awaits.
Release ==
    /\ exec_pc \in {"running", "aborted"}
    /\ n_closing > 0
    /\ n_closing' = n_closing - 1
    /\ sem_value' = sem_value + 1
    /\ n_done' = n_done + 1
    /\ gather_exc' = (gather_exc \/ cancelled)
    /\ UNCHANGED << config, script, exec_pc, use_streaming, batch_size, batches, batch_idx,
                    launched, n_pending, n_inflight, success_count, total_tokens, latencies,
                    n_ttfts, n_itls, collector_running, recorded_tokens, result, n_issued,
                    n_failed, reading, cancelled >>
    /\ UNCHANGED autoVars
    /\ UNCHANGED << samplerVars, snapshot, streamVars >>

\* Mutant of AllLaunched: the run goes on to the metrics after any gather.
AnyLaunched == TRUE

\* The for loop over the batches, or the single gather, has been gone through.
AllLaunched == IF UsesBatches THEN batch_idx = Len(batches) ELSE launched

\* ------------------------------------------------------------ samples
MaxSamples == 21

RECURSIVE InsertSorted(_, _)
InsertSorted(x, s) ==
    IF s = <<>> THEN <<x>>
    ELSE IF x <= Head(s) THEN <<x>> \o s
    ELSE <<Head(s)>> \o InsertSorted(x, Tail(s))

\* sorted(latencies)
RECURSIVE Sorted(_)
Sorted(s) == IF s = <<>> THEN <<>> ELSE InsertSorted(Head(s), Sorted(Tail(s)))

\* Mutant of P95Index: the product is rounded to the nearest integer.
P95IndexRounded(n) == (n * 95 + 50) \div 100

\* p95_idx = int(len(sorted_latencies) * 0.95)
P95Index(n) == (n * 95) \div 100

\* p95_latency = sorted_latencies[p95_idx] if sorted_latencies else 0
P95Latency(lats) ==
    IF lats = <<>> THEN 0 ELSE Sorted(lats)[P95Index(Len(lats)) + 1]

Metrics ==
    [backend |-> config.backend,
     total_tokens |-> total_tokens,
     successful_requests |-> success_count,
     failed_requests |-> config.total_requests - success_count,
     p95_latency |-> P95Latency(latencies),
     streaming_enabled |-> IF config.backend = "nim" THEN None ELSE Some(use_streaming),
     batch_size |-> IF config.backend = "ollama" THEN Some(batch_size) ELSE None]

\* After the last gather: raise when there is no latency sample, else build the
\* metrics; the finally block stops the sampler on both paths.
Finish ==
    /\ exec_pc = "running"
    /\ ~cancelled
    /\ AllLaunched
    /\ GatherDone
    /\ IF NoSuccess
       THEN exec_pc' = "raised" /\ result' = <<>>
       ELSE exec_pc' = "returned" /\ result' = <<Metrics>>
    /\ collector_running' = FALSE
    /\ UNCHANGED << config, script, use_streaming, batch_size, sem_value, batches,
                    batch_idx, launched, n_pending, n_inflight, n_closing, n_done,
                    success_count, total_tokens, latencies, n_ttfts, n_itls,
                    recorded_tokens, n_issued, n_failed,
                    reading, cancelled, gather_exc >>
    /\ UNCHANGED autoVars
    /\ UNCHANGED << samplerVars, snapshot, streamVars >>

\* An exception other than "No successful requests completed" leaves the inner try
\* block while the run is set up or its metrics are reduced (a key of the
\* configuration is missing), or the task is cancelled while no request is
\* outstanding; the finally block runs and the exception goes on to the caller.
Abort ==
    /\ exec_pc = "running"
    /\ ~cancelled
    /\ Outstanding = 0
    /\ exec_pc' = "aborted"
    /\ result' = <<>>
    /\ StopCollector
    /\ UNCHANGED << config, script, use_streaming, batch_size, sem_value, batches,
                    batch_idx, launched, n_pending, n_inflight, n_closing, n_done,
                    success_count, total_tokens, latencies, n_ttfts, n_itls,
                    recorded_tokens, n_issued, n_failed, reading, cancelled, gather_exc >>
    /\ UNCHANGED autoVars
    /\ UNCHANGED << samplerVars, snapshot, streamVars >>

\* The task awaiting execute_benchmark is cancelled at a gather with requests
\* outstanding: the gather cancels each of them.  No variable of the run changes
\* before the requests and the executor are run again by the event loop.
Cancel ==
    /\ exec_pc = "running"
    /\ ~cancelled
    /\ Outstanding > 0
    /\ cancelled' = TRUE
    /\ UNCHANGED << config, script, exec_pc, use_streaming, batch_size, sem_value, batches,
                    batch_idx, launched, n_pending, n_inflight, n_closing, n_done,
                    success_count, total_tokens, latencies, n_ttfts, n_itls,
                    collector_running, recorded_tokens, result, n_issued, n_failed,
                    reading, gather_exc >>
    /\ UNCHANGED autoVars
    /\ UNCHANGED << samplerVars, snapshot, streamVars >>

\* A cancelled request that waits at `async with semaphore` is run: it ends without
\* an HTTP call and without a slot.
CancelWaiting ==
    /\ exec_pc = "running"
    /\ cancelled
    /\ n_pending > 0
    /\ n_pending' = n_pending - 1
    /\ n_done' = n_done + 1
    /\ n_failed' = n_failed + 1
    /\ gather_exc' = TRUE
    /\ UNCHANGED << config, script, exec_pc, use_streaming, batch_size, sem_value, batches,
                    batch_idx, launched, n_inflight, n_closing, success_count, total_tokens,
                    latencies, n_ttfts, n_itls, collector_running, recorded_tokens, result,
                    n_issued, reading, cancelled >>
    /\ UNCHANGED autoVars
    /\ UNCHANGED << samplerVars, snapshot, streamVars >>

\* A cancelled request that is in flight is run: CancelledError passes
\* `except Exception`, the request leaves its try block and closes its session,
\* still holding its slot.
CancelInFlight ==
    /\ exec_pc = "running"
    /\ cancelled
    /\ n_inflight > 0
    /\ n_inflight' = n_inflight - 1
    /\ n_closing' = n_closing + 1
    /\ n_failed' = n_failed + 1
    /\ \/ Unread > 0 /\ UNCHANGED reading
       \/ \E r \in BagToSet(reading) : reading' = reading (-) SetToBag({r})
    /\ UNCHANGED << config, script, exec_pc, use_streaming, batch_size, sem_value, batches,
                    batch_idx, launched, n_pending, n_done, success_count, total_tokens,
                    latencies, n_ttfts, n_itls, collector_running, recorded_tokens, result,
                    n_issued, cancelled, gather_exc >>
    /\ UNCHANGED autoVars
    /\ UNCHANGED << samplerVars, snapshot, streamVars >>

\* execute_benchmark is run again with the CancelledError of its gather: the
\* finally block stops the sampler and the exception goes on to the caller.  The
\* event loop runs it after the cancelled requests, which it had scheduled before.
Leave ==
    /\ exec_pc = "running"
    /\ gather_exc
    /\ n_pending = 0 /\ n_inflight = 0
    /\ exec_pc' = "aborted"
    /\ StopCollector
    /\ UNCHANGED << config, script, use_streaming, batch_size, sem_value, batches,
                    batch_idx, launched, n_pending, n_inflight, n_closing, n_done,
                    success_count, total_tokens, latencies, n_ttfts, n_itls,
                    recorded_tokens, result, n_issued, n_failed, reading, cancelled,
                    gather_exc >>
    /\ UNCHANGED autoVars
    /\ UNCHANGED << samplerVars, snapshot, streamVars >>

\* ------------------------------------------------------ the Auto-Tuner
MaxStarts == 2
MaxTests == 4

MIN_ACCEPTABLE_TPS == 12
MAX_CONCURRENCY == 64
CONCURRENCY_STEPS == <<1, 2, 4, 8, 16, 24, 32, 48, 64>>
BATCH_SIZES == <<1, 2, 4, 8>>
TOKEN_SIZES == <<32, 128, 512>>
\* test_sizes of _find_max_token_size
ProbeSizes == <<512, 256, 128, 64, 32>>

\* How one _run_benchmark_test call can end: with an exception (model not found,
\* run failure), or with a result of some throughput and mean latency.
TestOutcomes ==
    { [error |-> TRUE, tokens_per_second |-> 0, latency |-> 0],
      [error |-> FALSE, tokens_per_second |-> 5, latency |-> 30],
      [error |-> FALSE, tokens_per_second |-> 20, latency |-> 50] }

TestConfig(concurrency, streaming, bsize, token_size, total_requests) ==
    [concurrency |-> concurrency, streaming |-> streaming, batch_size |-> bsize,
     token_size |-> token_size, total_requests |-> total_requests]

\* The configuration _run_benchmark_test hands to execute_benchmark.
TestRunConfig(t) ==
    [backend |-> "ollama", stream |-> t.streaming,
     batch_size |-> IF ~t.streaming THEN t.batch_size ELSE 1,
     total_requests |-> t.total_requests, concurrency_level |-> t.concurrency]

\* The entry appended to current_results["tests"]: the result of the test, or the
\* error_result (throughput 0, latency 0, an "error" field).
ResultEntry(cfg, o) ==
    [concurrency |-> cfg.concurrency, streaming |-> cfg.streaming,
     batch_size |-> cfg.batch_size, token_size |-> cfg.token_size,
     tokens_per_second |-> o.tokens_per_second, latency |-> o.latency, error |-> o.error]

\* Mutant of FirstMaxTps: the first test of the list, whatever its throughput.
FirstOfList(ts) == ts[1]

\* Mutant of FirstMinLatency: the first test of the band, whatever its latency.
FirstOfBand(ts) == ts[1]

\* max(valid_tests, key=tokens_per_second) and sorted(..., reverse=True)[0]:
\* the first test of the highest throughput.
FirstMaxTps(ts) ==
    ts[CHOOSE i \in 1..Len(ts) :
          /\ \A j \in 1..Len(ts) : ts[j].tokens_per_second <= ts[i].tokens_per_second
          /\ \A j \in 1..(i - 1) : ts[j].tokens_per_second < ts[i].tokens_per_second]

\* min(near_best, key=latency): the first test of the lowest latency.
FirstMinLatency(ts) ==
    ts[CHOOSE i \in 1..Len(ts) :
          /\ \A j \in 1..Len(ts) : ts[j].latency >= ts[i].latency
          /\ \A j \in 1..(i - 1) : ts[j].latency > ts[i].latency]

\* _find_best_config
FindBestConfig(ts) ==
    IF ts = <<>> THEN None
    ELSE LET valid == SelectSeq(ts, LAMBDA t :
                          ~t.error /\ t.tokens_per_second >= MIN_ACCEPTABLE_TPS)
         IN IF valid = <<>> THEN Some(FirstMaxTps(ts))
            ELSE LET best == FirstMaxTps(valid)
                     near == SelectSeq(valid, LAMBDA t :
                                 10 * t.tokens_per_second >= 9 * best.tokens_per_second)
                 IN IF near = <<>> THEN Some(best) ELSE Some(FirstMinLatency(near))

\* token_sizes = [size for size in TOKEN_SIZES if size <= max_supported_tokens],
\* [32] when that is empty.
TokenSizesFor(supported) ==
    LET ts == SelectSeq(TOKEN_SIZES, LAMBDA t : t <= supported)
    IN IF ts = <<>> THEN <<32>> ELSE ts

\* Mutant of BatchSizesFor: every batch size, whatever the concurrency.
BatchSizesAll(c) == BATCH_SIZES

\* [b for b in self.BATCH_SIZES if b <= concurrency]
BatchSizesFor(c) == SelectSeq(BATCH_SIZES, LAMBDA b : b <= c)

LargerTokenSizes(ts) == SelectSeq(ts, LAMBDA t : t > ts[1])

ProbeTest(k) == TestConfig(1, FALSE, 1, ProbeSizes[k], 2)

StreamTest(i, ts) == TestConfig(CONCURRENCY_STEPS[i], TRUE, 1, ts[1], 10)

BatchTest(i, j, ts) ==
    TestConfig(CONCURRENCY_STEPS[i], FALSE, BatchSizesFor(CONCURRENCY_STEPS[i])[j], ts[1], 10)

TokenTest(k, best, ts) ==
    TestConfig(best.concurrency, best.streaming, best.batch_size, LargerTokenSizes(ts)[k], 10)

\* Where the search goes from a point of its code, run up to the next call of
\* _run_benchmark_test (test # <<>>) or to the end of the phases (phase "none").
Decision(ph, i, j, t, best) ==
    [phase |-> ph, i |-> i, j |-> j, test |-> t, best |-> best]

EndOfPhases == Decision("none", 0, 0, None, None)

\* for token_size in [t for t in token_sizes if t > token_sizes[0]], at iteration k
TokenLoop(k, best, ts, stop) ==
    IF k > Len(LargerTokenSizes(ts)) \/ stop THEN EndOfPhases
    ELSE Decision("token", k, 0, Some(TokenTest(k, best, ts)), Some(best))

\* Mutant of TokenEntry: the first recorded test is taken as the best configuration.
TokenEntryFirstTest(recorded, ts, stop) ==
    IF stop THEN EndOfPhases
    ELSE IF recorded = <<>> THEN EndOfPhases ELSE TokenLoop(1, recorded[1], ts, stop)

\* if not self.should_stop: best_config = ...; if best_config: for ...
TokenEntry(recorded, ts, stop) ==
    IF stop THEN EndOfPhases
    ELSE LET b == FindBestConfig(recorded)
         IN IF b = None THEN EndOfPhases ELSE TokenLoop(1, Get(b), ts, stop)

\* top of the batch sweep's outer loop, at iteration i
BatchOuter(i, recorded, ts, stop) ==
    IF i > Len(CONCURRENCY_STEPS) \/ stop THEN TokenEntry(recorded, ts, stop)
    ELSE Decision("batch", i, 1, Some(BatchTest(i, 1, ts)), None)

\* all(r["tokens_per_second"] < MIN_ACCEPTABLE_TPS for r in batch_results
\*     if r["concurrency"] == concurrency and "error" not in r)
AllBelow(br, c) ==
    \A k \in 1..Len(br) :
        (br[k].concurrency = c /\ ~br[k].error) => br[k].tokens_per_second < MIN_ACCEPTABLE_TPS

\* after the inner loop of outer iteration i
AfterInner(i, br, recorded, ts, stop) ==
    IF AllBelow(br, CONCURRENCY_STEPS[i]) \/ CONCURRENCY_STEPS[i] >= MAX_CONCURRENCY
    THEN TokenEntry(recorded, ts, stop)
    ELSE BatchOuter(i + 1, recorded, ts, stop)

\* top of the batch sweep's inner loop, at iteration j of outer iteration i
BatchInner(i, j, br, recorded, ts, stop) ==
    IF j > Len(BatchSizesFor(CONCURRENCY_STEPS[i])) \/ stop
    THEN AfterInner(i, br, recorded, ts, stop)
    ELSE Decision("batch", i, j, Some(BatchTest(i, j, ts)), None)

\* top of the streaming sweep's loop, at iteration i
StreamLoop(i, recorded, ts, stop) ==
    IF i > Len(CONCURRENCY_STEPS) \/ stop THEN BatchOuter(1, recorded, ts, stop)
    ELSE Decision("streaming", i, 0, Some(StreamTest(i, ts)), None)

\* Mutant of ProbeNext: a test that succeeds yields the safe minimum, not its size.
ProbeNextMinimum(k, o) ==
    IF ~o.error THEN [again |-> FALSE, size |-> 32]
    ELSE IF k < Len(ProbeSizes) THEN [again |-> TRUE, size |-> ProbeSizes[k + 1]]
    ELSE [again |-> FALSE, size |-> 32]

\* _find_max_token_size after the test of ProbeSizes[k] ended with outcome o; the
\* loop has no test of should_stop.  The result is the next probe, or the size found.
ProbeNext(k, o) ==
    IF ~o.error THEN [again |-> FALSE, size |-> ProbeSizes[k]]
    ELSE IF k < Len(ProbeSizes) THEN [again |-> TRUE, size |-> ProbeSizes[k + 1]]
    ELSE [again |-> FALSE, size |-> 32]

\* Model ids of the start requests: an Ollama model name, cut at its "/".
ModelIds == { <<"llama3:8b">>, <<"hf.co", "org", "llama3">> }

\* open(results_dir / f"autobenchmark_{model_id}_{stamp}.json", "w") succeeds when
\* the name stays inside results_dir, the only directory that was created.
SavePathOk(id) == Len(id) = 1

\* _save_results: the session is written to a new file; an exception of open or
\* json.dump is logged and dropped.
SaveResults(session) ==
    IF SavePathOk(model_id)
    THEN n_saved' = n_saved + 1 /\ last_saved' = session
    ELSE UNCHANGED << n_saved, last_saved >>

AutoIdle ==
    /\ is_running = FALSE /\ should_stop = FALSE /\ current_results = <<>>
    /\ req = [r \in 1..MaxStarts |-> "new"] /\ stop_reply = "none"
    /\ phase = "none" /\ loop_i = 0 /\ loop_j = 0
    /\ token_sizes = <<>> /\ max_supported_tokens = 0 /\ probe_failed = 0
    /\ batch_results = <<>> /\ best_config = <<>> /\ test = <<>> /\ tests_started = 0
    /\ model_id = <<>> /\ n_saved = 0 /\ last_saved = <<>>

\* POST /start: the handler tests is_running and schedules run_auto_benchmark as a
\* background task, which starts after the answer is sent.
StartRequest(r) ==
    /\ req[r] = "new"
    /\ \A q \in 1..(r - 1) : req[q] # "new"
    /\ req' = [req EXCEPT ![r] = IF is_running THEN "rejected" ELSE "started"]
    /\ UNCHANGED << is_running, should_stop, current_results, stop_reply, phase, loop_i,
                    loop_j, token_sizes, max_supported_tokens, probe_failed,
       batch_results, best_config, test, tests_started,
                    model_id, n_saved, last_saved >>
    /\ UNCHANGED execVars
    /\ UNCHANGED << samplerVars, snapshot, streamVars >>

\* Mutant of RejectEffect: the guard sits inside the try block, so the except and
\* finally clauses run for the rejected call.
RejectInsideTry ==
    /\ is_running' = FALSE
    /\ should_stop' = should_stop
    /\ current_results' = <<[current_results[1] EXCEPT !.status = "error"]>>

\* What `raise Exception("Auto-benchmark is already running")`, placed before the
\* try block, does to the service.
RejectEffect == UNCHANGED << is_running, should_stop, current_results >>

\* run_auto_benchmark called while a search is running.
RejectCall(r) ==
    /\ req[r] = "started"
    /\ is_running
    /\ req' = [req EXCEPT ![r] = "crashed"]
    /\ RejectEffect
    /\ UNCHANGED << stop_reply, phase, loop_i, loop_j, token_sizes,
                    max_supported_tokens, probe_failed,
       batch_results,
                    best_config, test, tests_started, model_id, n_saved, last_saved >>
    /\ UNCHANGED execVars
    /\ UNCHANGED << samplerVars, snapshot, streamVars >>

\* run_auto_benchmark from the guard to the first await: the session is created and
\* the capacity probe starts its first test.
BeginSearch(r) ==
    /\ req[r] = "started"
    /\ ~is_running
    /\ req' = [req EXCEPT ![r] = "searching"]
    /\ is_running' = TRUE
    /\ should_stop' = FALSE
    /\ current_results' = <<[tests |-> <<>>, optimal_config |-> None, status |-> "running"]>>
    /\ phase' = "probe" /\ loop_i' = 1 /\ loop_j' = 0
    /\ token_sizes' = <<>> /\ max_supported_tokens' = 0 /\ probe_failed' = 0
    /\ batch_results' = <<>> /\ best_config' = <<>>
    /\ test' = Some(ProbeTest(1))
    /\ tests_started' = 1
    /\ model_id' \in ModelIds
    /\ n_saved' = 0 /\ last_saved' = <<>>
    /\ UNCHANGED stop_reply
    /\ UNCHANGED execVars
    /\ UNCHANGED << samplerVars, snapshot, streamVars >>

\* Mutant of StopEffect: the stop also marks the session as "stopping".
StopMarksStopping ==
    /\ should_stop' = TRUE
    /\ current_results' = <<[current_results[1] EXCEPT !.status = "stopping"]>>

\* stop_running_benchmark while a search runs: self.should_stop = True
StopEffect == should_stop' = TRUE /\ UNCHANGED current_results

\* POST /stop
StopRequest ==
    /\ IF is_running
       THEN StopEffect /\ stop_reply' = "stopping"
       ELSE UNCHANGED << should_stop, current_results >> /\ stop_reply' = "not_running"
    /\ UNCHANGED << is_running, req, phase, loop_i, loop_j, token_sizes,
                    max_supported_tokens, probe_failed,
       batch_results,
                    best_config, test, tests_started, model_id, n_saved, last_saved >>
    /\ UNCHANGED execVars
    /\ UNCHANGED << samplerVars, snapshot, streamVars >>

\* Mutant of Record: the error_result of a failed test is dropped.
RecordSuccessOnly(tests, entry) == IF entry.error THEN tests ELSE Append(tests, entry)

\* self.current_results["tests"].append(result), and .append(error_result) in the
\* except clause
Record(tests, entry) == Append(tests, entry)

\* Mutant of StreamStops: the sweep stops at the ceiling only.
StopsAtCeilingOnly(c, o) == ~o.error /\ c >= MAX_CONCURRENCY

\* The two breaks of the streaming sweep, after a test that returned a result.
StreamStops(c, o) ==
    ~o.error /\ (o.tokens_per_second < MIN_ACCEPTABLE_TPS \/ c >= MAX_CONCURRENCY)

\* The search after the test in flight ended with outcome o: the new test list and
\* batch_results, the token sizes, and where the code goes next.
AfterTest(o) ==
    LET recorded == current_results[1].tests
        entry == ResultEntry(Get(test), o)
    IN CASE phase = "probe" ->
              LET nxt == ProbeNext(loop_i, o)
                  ts == TokenSizesFor(nxt.size)
              IN [tests |-> recorded, br |-> batch_results,
                  ts |-> IF nxt.again THEN <<>> ELSE ts,
                  size |-> IF nxt.again THEN 0 ELSE nxt.size,
                  failed |-> probe_failed + (IF o.error THEN 1 ELSE 0),
                  go |-> IF nxt.again
                         THEN Decision("probe", loop_i + 1, 0, Some(ProbeTest(loop_i + 1)), None)
                         ELSE StreamLoop(1, recorded, ts, should_stop)]
         [] phase = "streaming" ->
              LET rec2 == Record(recorded, entry)
              IN [tests |-> rec2, br |-> batch_results, ts |-> token_sizes,
                  size |-> max_supported_tokens, failed |-> probe_failed,
                  go |-> IF StreamStops(CONCURRENCY_STEPS[loop_i], o)
                         THEN BatchOuter(1, rec2, token_sizes, should_stop)
                         ELSE StreamLoop(loop_i + 1, rec2, token_sizes, should_stop)]
         [] phase = "batch" ->
              LET rec2 == Record(recorded, entry)
                  br2 == IF o.error THEN batch_results ELSE Append(batch_results, entry)
              IN [tests |-> rec2, br |-> br2, ts |-> token_sizes,
                  size |-> max_supported_tokens, failed |-> probe_failed,
                  go |-> IF ~o.error /\ o.tokens_per_second < MIN_ACCEPTABLE_TPS
                         THEN AfterInner(loop_i, br2, rec2, token_sizes, should_stop)
                         ELSE BatchInner(loop_i, loop_j + 1, br2, rec2, token_sizes, should_stop)]
         [] OTHER ->
              LET rec2 == Record(recorded, entry)
              IN [tests |-> rec2, br |-> batch_results, ts |-> token_sizes,
                  size |-> max_supported_tokens, failed |-> probe_failed,
                  go |-> TokenLoop(loop_i + 1, Get(best_config), token_sizes, should_stop)]

\* Mutant of ClearRunning: the flag is left as it is when the search returns.
RunningKept == UNCHANGED is_running

\* finally: self.is_running = False
ClearRunning == is_running' = FALSE

\* The test in flight ends; the search runs on to its next test, or to its end:
\* optimal_config and status are set, the session is saved, is_running is cleared.
TestStepIn(outcomes) ==
    /\ is_running
    /\ test # <<>>
    /\ \E o \in outcomes :
          LET a == AfterTest(o)
          IN IF a.go.phase = "none"
             THEN /\ current_results' =
                        <<[tests |-> a.tests, optimal_config |-> FindBestConfig(a.tests),
                           status |-> "completed"]>>
                  /\ SaveResults(current_results')
                  /\ ClearRunning
                  /\ req' = [r \in 1..MaxStarts |->
                               IF req[r] = "searching" THEN "done" ELSE req[r]]
                  /\ phase' = "none" /\ loop_i' = 0 /\ loop_j' = 0
                  /\ token_sizes' = <<>> /\ max_supported_tokens' = 0 /\ probe_failed' = 0
                  /\ batch_results' = <<>> /\ best_config' = <<>>
                  /\ test' = <<>>
                  /\ tests_started' = 0
             ELSE /\ current_results' = <<[current_results[1] EXCEPT !.tests = a.tests]>>
                  /\ phase' = a.go.phase /\ loop_i' = a.go.i /\ loop_j' = a.go.j
                  /\ token_sizes' = a.ts /\ max_supported_tokens' = a.size
                  /\ probe_failed' = a.failed
                  /\ batch_results' = a.br
                  /\ best_config' = a.go.best
                  /\ test' = a.go.test
                  /\ tests_started' = tests_started + 1
                  /\ UNCHANGED << is_running, req, n_saved, last_saved >>
    /\ UNCHANGED << should_stop, stop_reply, model_id >>
    /\ UNCHANGED execVars
    /\ UNCHANGED << samplerVars, snapshot, streamVars >>

TestStep == TestStepIn(TestOutcomes)

\* The search is followed until MaxTests tests are recorded.
TestEnd ==
    /\ is_running
    /\ phase # "probe" => Len(current_results[1].tests) < MaxTests
    /\ TestStep

\* The streaming sweep is followed to its end, whatever its length.
SweepTestEnd ==
    /\ phase = "streaming"
    /\ TestStep

NextSweep == SweepTestEnd \/ StopRequest

\* The outcomes of a test on a backend that behaves steadily: any outcome for the
\* tests of the probe and for the first test that is recorded, and then the outcome
\* of the test recorded last.
SteadyOutcomes(recorded) ==
    IF recorded = <<>> THEN TestOutcomes
    ELSE LET last == recorded[Len(recorded)]
         IN {o \in TestOutcomes :
                /\ o.error = last.error
                /\ o.tokens_per_second = last.tokens_per_second
                /\ o.latency = last.latency}

\* The search is followed to its end, whatever its length, on a steady backend.
TestEndSteady ==
    /\ is_running
    /\ TestStepIn(SteadyOutcomes(current_results[1].tests))

NextAutoSteady ==
    \/ \E r \in 1..MaxStarts : StartRequest(r)
    \/ \E r \in 1..MaxStarts : RejectCall(r)
    \/ \E r \in 1..MaxStarts : BeginSearch(r)
    \/ StopRequest
    \/ TestEndSteady

NextAuto ==
    \/ \E r \in 1..MaxStarts : StartRequest(r)
    \/ \E r \in 1..MaxStarts : RejectCall(r)
    \/ \E r \in 1..MaxStarts : BeginSearch(r)
    \/ StopRequest
    \/ TestEnd

\* ------------------------------------------------- the Telemetry Sampler
MaxThreads == 2
MaxRuns == 2
MaxTokens == 2
MaxGpus == 2

Max(a, b) == IF a >= b THEN a ELSE b

\* Amounts passed to record_tokens.
TokenAmounts == {1, 2}

\* What nvidia-smi does in collect_metrics, at the count or at the query of a GPU:
\*   "missing"  no GPU is listed (check_output raises or prints no line:
\*              gpu_count = 0)
\*   "exit"     the query of the GPU ends with a non-zero return code
\*   "output"   the query prints its line; values are its comma-separated fields
\*              (utilisation, memory used, memory total, temperature, power draw,
\*              SM clock, name), a numeric field being None when it is not a
\*              number ("[N/A]")
SmiResults ==
    { [kind |-> "missing"], [kind |-> "exit"],
      [kind |-> "output",
       values |-> <<Some(50), Some(1000), Some(8000), Some(60), Some(100), Some(1500), "gpu">>],
      [kind |-> "output",
       values |-> <<None, Some(1000), Some(8000), Some(60), Some(100), Some(1500), "gpu">>],
      [kind |-> "output",
       values |-> <<Some(50), Some(1000), Some(8000), Some(60), None, Some(1500), "gpu">>],
      [kind |-> "output", values |-> <<Some(50), Some(1000)>>] }

\* Mutant of GetGpuMetrics: the reading is taken once the utilisation and the memory
\* used are parsed.
GpuMetricsEarly(res) ==
    IF res.kind # "output" THEN None
    ELSE IF Len(res.values) < 2 \/ res.values[1] = None \/ res.values[2] = None THEN None
    ELSE Some([gpu_utilization |-> Get(res.values[1]), gpu_memory_used |-> Get(res.values[2])])

\* get_gpu_metrics: {} unless the return code is 0 and float() accepts each of the
\* six numeric fields and the name is there; the metrics dict is complete before
\* the peaks are raised.
GetGpuMetrics(res) ==
    IF res.kind # "output" THEN None
    ELSE IF Len(res.values) < 7 \/ \E i \in 1..6 : res.values[i] = None THEN None
    ELSE Some([gpu_utilization |-> Get(res.values[1]), gpu_memory_used |-> Get(res.values[2])])

\* The readings of one tick: nothing, or the utilisation and the used memory.
GpuReadings == {GetGpuMetrics(res) : res \in SmiResults}

\* time.time() - self.last_update, in calculate_tps.
WindowSizes == {0, 1}

\* threading.Thread.is_alive
Alive(t) == th[t] \in {"check", "tick", "calc", "snap", "hist"}

SamplerIdle ==
    /\ running = FALSE /\ collector_thread = None
    /\ th = [t \in 1..MaxThreads |-> "unborn"]
    /\ lock_held = FALSE
    /\ tokens_count = 0 /\ tokens_last_window = 0
    /\ peak_tps = 0 /\ peak_gpu_util = 0 /\ peak_gpu_mem = 0
    /\ caller_pc = "idle" /\ caller_run = 0 /\ rec_count = 0 /\ rec_tmp = 0
    /\ run_pc = [r \in 1..MaxRuns |-> "idle"]
    /\ recorded_sum = 0 /\ fresh = FALSE /\ peaks_reply = None
    /\ windows_sum = 0 /\ derived_max = 0 /\ probe = None
    /\ gpu_seen = [a \in 0..MaxThreads |-> 0]
    /\ tick_in_join = FALSE

\* Mutant of ResetPeaks: the cumulative counter is kept.
ResetPeaksOnly ==
    /\ peak_tps' = 0 /\ peak_gpu_util' = 0 /\ peak_gpu_mem' = 0
    /\ tokens_last_window' = 0
    /\ UNCHANGED tokens_count

\* reset_peaks, under the lock
ResetPeaks ==
    /\ peak_tps' = 0 /\ peak_gpu_util' = 0 /\ peak_gpu_mem' = 0
    /\ tokens_count' = 0 /\ tokens_last_window' = 0

\* start_collector: return when the thread referred to is alive, else set the flag
\* and start a new thread.
StartCollector ==
    IF collector_thread # None /\ Alive(Get(collector_thread))
    THEN UNCHANGED threadVars
    ELSE \E t \in 1..MaxThreads :
            /\ th[t] = "unborn"
            /\ \A u \in 1..(t - 1) : th[u] # "unborn"
            /\ running' = TRUE
            /\ collector_thread' = Some(t)
            /\ th' = [th EXCEPT ![t] = "check"]

\* execute_benchmark is entered for run r: metrics_collector.reset_peaks().  No
\* test is made of another run being in progress.
RunReset(r) ==
    /\ run_pc[r] = "idle"
    /\ caller_pc = "idle" /\ ~lock_held
    /\ ResetPeaks
    /\ recorded_sum' = 0
    /\ windows_sum' = 0 /\ derived_max' = 0 /\ UNCHANGED << probe, gpu_seen >>
    /\ fresh' = TRUE
    /\ peaks_reply' = None
    /\ run_pc' = [run_pc EXCEPT ![r] = "reset"]
    /\ caller_pc' = "starting" /\ caller_run' = r
    /\ UNCHANGED << threadVars, lock_held, rec_count, rec_tmp >>
    /\ UNCHANGED tick_in_join
    /\ UNCHANGED << execVars, autoVars, snapshot, streamVars >>

\* metrics_collector.start_collector(interval=0.5), the next statement of run r.
RunStart(r) ==
    /\ run_pc[r] = "reset"
    /\ caller_pc = "starting" /\ caller_run = r
    /\ StartCollector
    /\ run_pc' = [run_pc EXCEPT ![r] = "active"]
    /\ caller_pc' = "idle" /\ caller_run' = 0
    /\ UNCHANGED << counterVars, lock_held, rec_count, rec_tmp, recorded_sum,
                    tickVars, fresh,
                    peaks_reply >>
    /\ UNCHANGED tick_in_join
    /\ UNCHANGED << execVars, autoVars, snapshot, streamVars >>

\* record_tokens(count) called by a request of run r: the lock is taken and
\* self.tokens_count is read.
RecordEnter(r) ==
    /\ run_pc[r] = "active"
    /\ caller_pc = "idle" /\ ~lock_held
    /\ \E c \in TokenAmounts :
          /\ recorded_sum + c <= MaxTokens
          /\ rec_count' = c
    /\ rec_tmp' = tokens_count
    /\ lock_held' = TRUE
    /\ caller_pc' = "recording" /\ caller_run' = r
    /\ peaks_reply' = None
    /\ UNCHANGED << threadVars, counterVars, run_pc, recorded_sum, tickVars, fresh >>
    /\ UNCHANGED tick_in_join
    /\ UNCHANGED << execVars, autoVars, snapshot, streamVars >>

\* Mutant of StoredCount: the amount replaces the counter.
StoredAmount == rec_count

\* self.tokens_count += count: the value written back
StoredCount == rec_tmp + rec_count

\* record_tokens writes the counter and gives the lock back.
RecordStore ==
    /\ caller_pc = "recording"
    /\ tokens_count' = StoredCount
    /\ recorded_sum' = recorded_sum + rec_count
    /\ UNCHANGED tickVars
    /\ fresh' = FALSE
    /\ lock_held' = FALSE
    /\ caller_pc' = "idle" /\ caller_run' = 0
    /\ rec_count' = 0 /\ rec_tmp' = 0
    /\ UNCHANGED << threadVars, tokens_last_window, peak_tps, peak_gpu_util, peak_gpu_mem,
                    run_pc, peaks_reply >>
    /\ UNCHANGED tick_in_join
    /\ UNCHANGED << execVars, autoVars, snapshot, streamVars >>

\* get_peaks, under the lock (the metrics websocket calls it between any two steps
\* of the event loop thread).
GetPeaks ==
    /\ caller_pc = "idle" /\ ~lock_held
    /\ peaks_reply' = Some([peak_tps |-> peak_tps, peak_gpu_util |-> peak_gpu_util,
                            peak_gpu_mem |-> peak_gpu_mem, total_tokens |-> tokens_count])
    /\ peaks_reply' # peaks_reply
    /\ UNCHANGED << threadVars, counterVars, callerVars, run_pc, recorded_sum,
                    tickVars, fresh >>
    /\ UNCHANGED tick_in_join
    /\ UNCHANGED << execVars, autoVars, snapshot, streamVars >>

\* stop_collector in the finally block of run r: self.running = False, then, when a
\* thread is referred to, join(timeout=2.0).
RunStop(r) ==
    /\ run_pc[r] = "active"
    /\ caller_pc = "idle"
    /\ running' = FALSE
    /\ peaks_reply' = None
    /\ IF collector_thread = None
       THEN /\ run_pc' = [run_pc EXCEPT ![r] = "done"]
            /\ UNCHANGED << caller_pc, caller_run, tick_in_join >>
       ELSE /\ run_pc' = [run_pc EXCEPT ![r] = "stopping"]
            /\ caller_pc' = "joining" /\ caller_run' = r
            /\ tick_in_join' =
                  (th[Get(collector_thread)] \in {"tick", "calc", "snap", "hist"})
    /\ UNCHANGED << collector_thread, th, counterVars, lock_held, rec_count, rec_tmp,
                    recorded_sum, tickVars, fresh >>
    /\ UNCHANGED << execVars, autoVars, snapshot, streamVars >>

\* Mutant of JoinOver: join has no timeout.
JoinWaits == th[Get(collector_thread)] = "dead"

\* join(timeout=2.0) returns: the thread has ended, or the two seconds ran out
\* while the thread was inside a tick (nvidia-smi and psutil calls), or in the
\* sleep that follows a tick the join began in.  A thread that was in its sleep
\* when the join began wakes within the interval (0.5 s or 1 s) and ends.
JoinOver ==
    \/ th[Get(collector_thread)] = "dead"
    \/ th[Get(collector_thread)] \in {"tick", "calc", "snap", "hist"}
    \/ th[Get(collector_thread)] = "check" /\ tick_in_join

\* stop_collector after the join: self.collector_thread = None, and the finally
\* block of run r is over.
JoinReturn ==
    /\ caller_pc = "joining"
    /\ JoinOver
    /\ collector_thread' = None
    /\ run_pc' = [run_pc EXCEPT ![caller_run] = "done"]
    /\ caller_pc' = "idle" /\ caller_run' = 0
    /\ tick_in_join' = FALSE
    /\ UNCHANGED << running, th, counterVars, lock_held, rec_count, rec_tmp,
                    recorded_sum, tickVars,
                    fresh, peaks_reply >>
    /\ UNCHANGED << execVars, autoVars, snapshot, streamVars >>

\* _collection_loop: `while self.running`, at the start and after each sleep.
LoopCheck(t) ==
    /\ th[t] = "check"
    /\ th' = [th EXCEPT ![t] = IF running THEN "tick" ELSE "dead"]
    /\ UNCHANGED << running, collector_thread, counterVars, callerVars, run_pc,
                    recorded_sum, tickVars, fresh, peaks_reply >>
    /\ UNCHANGED tick_in_join
    /\ UNCHANGED << execVars, autoVars, snapshot, streamVars >>

\* Where a is inside collect_metrics: the event loop thread (a = 0) or sampling
\* thread a.
Pos(a) == IF a = 0 THEN caller_pc ELSE th[a]

\* a goes on to p.
Moves(a, p) ==
    IF a = 0 THEN caller_pc' = p /\ UNCHANGED th
    ELSE th' = [th EXCEPT ![a] = p] /\ UNCHANGED caller_pc

\* get_gpu_metrics comes to `with self._lock`: the return code is 0 and
\* float(values[1]), float(values[2]) were taken.
TakesLock(res) ==
    /\ res.kind = "output"
    /\ Len(res.values) >= 3
    /\ res.values[2] # None /\ res.values[3] # None

\* The main websocket handler: start_collector() when no thread is referred to or
\* the thread referred to is not alive; no reset, and the handler never stops it.
WebsocketStart ==
    /\ caller_pc = "idle"
    /\ IF collector_thread = None THEN TRUE ELSE ~Alive(Get(collector_thread))
    /\ StartCollector
    /\ UNCHANGED << counterVars, callerVars, run_pc, recorded_sum, tickVars, fresh,
                    peaks_reply >>
    /\ UNCHANGED tick_in_join
    /\ UNCHANGED << execVars, autoVars, snapshot, streamVars >>

\* collect_metrics is called on the event loop thread: by an executor after
\* get_peaks, by a websocket handler.
CollectCall ==
    /\ caller_pc = "idle"
    /\ caller_pc' = "tick"
    /\ peaks_reply' = None
    /\ UNCHANGED << threadVars, counterVars, lock_held, caller_run, rec_count, rec_tmp,
                    run_pc, recorded_sum, tickVars, fresh >>
    /\ UNCHANGED tick_in_join
    /\ UNCHANGED << execVars, autoVars, snapshot, streamVars >>

\* collect_metrics, first part: the GPUs are counted and get_gpu_metrics is called
\* for each; a call that comes to the lock raises the GPU peaks under it, when the
\* metrics dict could be built.  `last`: no GPU is left.
TickGpu(a) ==
    /\ Pos(a) = "tick"
    /\ \E res \in SmiResults, last \in BOOLEAN :
          LET g == GetGpuMetrics(res)
          IN /\ TakesLock(res) => ~lock_held
             /\ IF res.kind = "missing"
                THEN gpu_seen[a] = 0 /\ last
                ELSE gpu_seen[a] < MaxGpus /\ (gpu_seen[a] + 1 = MaxGpus => last)
             /\ g \in GpuReadings
             /\ probe' = Some(res)
             /\ IF g = None THEN UNCHANGED << peak_gpu_util, peak_gpu_mem >>
                ELSE /\ peak_gpu_util' = Max(peak_gpu_util, Get(g).gpu_utilization)
                     /\ peak_gpu_mem' = Max(peak_gpu_mem, Get(g).gpu_memory_used)
             /\ IF last
                THEN /\ Moves(a, "calc")
                     /\ gpu_seen' = [gpu_seen EXCEPT ![a] = 0]
                ELSE /\ UNCHANGED << th, caller_pc >>
                     /\ gpu_seen' = [gpu_seen EXCEPT ![a] = @ + 1]
    /\ fresh' = FALSE
    /\ UNCHANGED << running, collector_thread, tokens_count, tokens_last_window, peak_tps,
                    lock_held, caller_run, rec_count, rec_tmp, run_pc, recorded_sum,
                    windows_sum, derived_max, peaks_reply >>
    /\ UNCHANGED tick_in_join
    /\ UNCHANGED << execVars, autoVars, snapshot, streamVars >>

\* Mutant of WindowTps: the rate is taken over all the tokens counted so far.
CumulativeTps(w) == tokens_count \div w

\* tps = (self.tokens_count - self.tokens_last_window) / window_size
WindowTps(w) == (tokens_count - tokens_last_window) \div w

\* collect_metrics, second part: calculate_tps under the lock.
TickCalc(a) ==
    /\ Pos(a) = "calc"
    /\ ~lock_held
    /\ \E w \in WindowSizes :
          IF w > 0
          THEN /\ tokens_last_window' = tokens_count
               /\ peak_tps' = Max(peak_tps, WindowTps(w))
               /\ windows_sum' = windows_sum + WindowTps(w) * w
               /\ derived_max' = Max(derived_max, WindowTps(w))
          ELSE UNCHANGED << tokens_last_window, peak_tps, windows_sum, derived_max >>
    /\ probe' = None
    /\ Moves(a, "snap")
    /\ fresh' = FALSE
    /\ UNCHANGED << running, collector_thread, tokens_count, peak_gpu_util, peak_gpu_mem,
                    lock_held, caller_run, rec_count, rec_tmp, run_pc, recorded_sum,
                    gpu_seen, peaks_reply >>
    /\ UNCHANGED tick_in_join
    /\ UNCHANGED << execVars, autoVars, snapshot, streamVars >>

\* collect_metrics, third part: the metrics dict is built, 'peak_tps': self.peak_tps
\* being read outside every `with self._lock` block.
TickSnap(a) ==
    /\ Pos(a) = "snap"
    /\ snapshot' = Some([peak_tps |-> peak_tps])
    /\ Moves(a, "hist")
    /\ UNCHANGED << running, collector_thread, counterVars, lock_held, caller_run,
                    rec_count, rec_tmp, run_pc, recorded_sum, tickVars, fresh,
                    peaks_reply, tick_in_join >>
    /\ UNCHANGED << execVars, autoVars, streamVars >>

\* collect_metrics, last part: the dict is added to historical_metrics under the
\* lock and returned; the loop of a sampling thread puts it on the queue and
\* sleeps.
TickPut(a) ==
    /\ Pos(a) = "hist"
    /\ ~lock_held
    /\ Moves(a, IF a = 0 THEN "idle" ELSE "check")
    /\ UNCHANGED << running, collector_thread, counterVars, lock_held, caller_run,
                    rec_count, rec_tmp, run_pc, recorded_sum, tickVars, fresh,
                    peaks_reply >>
    /\ UNCHANGED tick_in_join
    /\ UNCHANGED << execVars, autoVars, snapshot, streamVars >>

NextSampler ==
    \/ \E r \in 1..MaxRuns : RunReset(r)
    \/ \E r \in 1..MaxRuns : RunStart(r)
    \/ \E r \in 1..MaxRuns : RecordEnter(r)
    \/ RecordStore
    \/ GetPeaks
    \/ \E r \in 1..MaxRuns : RunStop(r)
    \/ JoinReturn
    \/ \E t \in 1..MaxThreads : LoopCheck(t)
    \/ WebsocketStart
    \/ CollectCall
    \/ \E a \in 0..MaxThreads : TickGpu(a)
    \/ \E a \in 0..MaxThreads : TickCalc(a)
    \/ \E a \in 0..MaxThreads : TickSnap(a)
    \/ \E a \in 0..MaxThreads : TickPut(a)

\* ------------------------------------- one streaming request, with the clock
MaxLines == 4

\* Time that passes while the request awaits its answer or its next line, in ms.
Delays == {0, 1, 2}

\* The lines of the stream: one that is not JSON, one whose reading or handling
\* raises, the last chunk of Ollama (no text, eval_count), a chunk with text.
TimedLines ==
    { [kind |-> "garbage"], [kind |-> "abort"],
      [kind |-> "chunk", response |-> Some(<<>>), eval_count |-> Some(3)],
      [kind |-> "chunk", response |-> Some(<<"a">>), eval_count |-> None] }

\* chunk.get('response') is true
HasContent(chunk) ==
    chunk.kind = "chunk" /\ IsSome(chunk.response) /\ Get(chunk.response) # <<>>

\* Mutant of MeanInterval: the sum is divided by the number of timestamps.
MeanOverStamps(ts) ==
    [num |-> SumSeq([i \in 1..(Len(ts) - 1) |-> ts[i + 1] - ts[i]]), den |-> Len(ts)]

\* intervals = [ts[i] - ts[i-1] for i in range(1, len(ts))];
\* sum(intervals) / len(intervals), kept as a fraction
MeanInterval(ts) ==
    LET intervals == [i \in 1..(Len(ts) - 1) |-> ts[i + 1] - ts[i]]
    IN [num |-> SumSeq(intervals), den |-> Len(intervals)]

\* make_request has passed `async with semaphore`: req_start and first_token_time
\* are set, the payload is built and the POST is sent.  The wait at the semaphore
\* is over before the clock is read.
StreamSend ==
    /\ st_pc = "idle"
    /\ \E d \in Delays : now' = now + d
    /\ req_start' = now'
    /\ started_at' = now'
    /\ first_token_time' = None
    /\ st_pc' = "sent"
    /\ UNCHANGED << token_timestamps, ttfts, inter_token_latencies, stream_state,
                    arrivals >>
    /\ UNCHANGED << execVars, autoVars, samplerVars, snapshot >>

\* Mutant of StreamOpen: req_start is taken when the answer arrives.
StreamOpenRestamps ==
    /\ st_pc = "sent"
    /\ \E d \in Delays : now' = now + d
    /\ \E ok \in BOOLEAN : st_pc' = IF ok THEN "reading" ELSE "failed"
    /\ req_start' = now'
    /\ token_timestamps' = <<>>
    /\ stream_state' = StreamStart
    /\ UNCHANGED << first_token_time, ttfts, inter_token_latencies, arrivals,
                    started_at >>
    /\ UNCHANGED << execVars, autoVars, samplerVars, snapshot >>

\* The answer of the POST arrives, some time after the request was sent: an error
\* or a status other than 200 raises, a 200 answer of a streaming request sets
\* tokens and token_timestamps and the lines are read.
StreamOpen ==
    /\ st_pc = "sent"
    /\ \E d \in Delays : now' = now + d
    /\ \E ok \in BOOLEAN : st_pc' = IF ok THEN "reading" ELSE "failed"
    /\ token_timestamps' = <<>>
    /\ stream_state' = StreamStart
    /\ UNCHANGED << req_start, first_token_time, ttfts, inter_token_latencies,
                    arrivals, started_at >>
    /\ UNCHANGED << execVars, autoVars, samplerVars, snapshot >>

\* One pass of `async for line in response.content`.  The clock reads made for one
\* line have no await between them and give one instant.
StreamLine(chunk) ==
    /\ st_pc = "reading"
    /\ Len(arrivals) < MaxLines
    /\ \E d \in Delays : now' = now + d
    /\ arrivals' = Append(arrivals, [at |-> now', line |-> chunk])
    /\ stream_state' = OllamaChunkStep(stream_state, chunk)
    /\ st_pc' = IF chunk.kind = "abort" THEN "failed" ELSE "reading"
    /\ IF HasContent(chunk)
       THEN /\ token_timestamps' = Append(token_timestamps, now')
            /\ IF first_token_time = None
               THEN /\ first_token_time' = Some(now')
                    /\ ttfts' = Append(ttfts, now' - req_start)
               ELSE UNCHANGED << first_token_time, ttfts >>
       ELSE UNCHANGED << token_timestamps, first_token_time, ttfts >>
    /\ UNCHANGED << req_start, inter_token_latencies, started_at >>
    /\ UNCHANGED << execVars, autoVars, samplerVars, snapshot >>

\* The end of the stream is awaited like a line and comes some time after the last
\* one: the inter-token sample, then the success path.
StreamEnd ==
    /\ st_pc = "reading"
    /\ \E d \in Delays : now' = now + d
    /\ inter_token_latencies' =
          IF Len(token_timestamps) > 1
          THEN Append(inter_token_latencies, MeanInterval(token_timestamps))
          ELSE inter_token_latencies
    /\ st_pc' = "done"
    /\ UNCHANGED << req_start, first_token_time, token_timestamps, ttfts,
                    stream_state, arrivals, started_at >>
    /\ UNCHANGED << execVars, autoVars, samplerVars, snapshot >>

NextStream ==
    \/ StreamSend
    \/ StreamOpen
    \/ \E chunk \in TimedLines : StreamLine(chunk)
    \/ StreamEnd

\* A run that no exception interrupts.
NextRun ==
    \/ Begin \/ LaunchBatch \/ LaunchAll \/ Acquire \/ Respond \/ ReadLine \/ EndOfStream
    \/ Release \/ Finish

\* The executor, with the exits by an exception of the inner try block.
NextExec ==
    NextRun \/ Abort \/ Cancel \/ CancelWaiting \/ CancelInFlight \/ Leave

vars == << execVars, autoVars, samplerVars, snapshot, streamVars >>

\* The backend answers each request in one of these ways: a complete answer, or one
\* of the failures (no connection or timeout, a status other than 200, a body that
\* is not JSON, a stream that breaks after its first text).
OllamaAnswers(streaming) ==
    IF streaming
    THEN << [kind |-> "stream",
             chunks |-> << [kind |-> "chunk", response |-> Some(<<"a">>), eval_count |-> None],
                           [kind |-> "chunk", response |-> None, eval_count |-> Some(3)] >>],
            [kind |-> "stream",
             chunks |-> << [kind |-> "chunk", response |-> Some(<<"a">>), eval_count |-> None],
                           [kind |-> "abort"] >>],
            [kind |-> "neterr"], [kind |-> "status", status |-> 500], [kind |-> "badjson"] >>
    ELSE << [kind |-> "json",
             body |-> [eval_count |-> Some(3), eval_duration |-> None, response |-> None]],
            [kind |-> "neterr"], [kind |-> "status", status |-> 500], [kind |-> "badjson"] >>

\* The same for a streaming run of the vLLM executor.
VllmAnswers ==
    << [kind |-> "stream",
        chunks |-> << [kind |-> "chunk", choices |-> Some(<<Some(<<"a">>)>>)],
                      [kind |-> "chunk", choices |-> Some(<<Some(<<"a">>)>>)] >>],
       [kind |-> "stream",
        chunks |-> << [kind |-> "chunk", choices |-> Some(<<Some(<<"a">>)>>)],
                      [kind |-> "abort"] >>],
       [kind |-> "neterr"], [kind |-> "status", status |-> 500], [kind |-> "badjson"] >>

\* The answers a run of several requests is given: any reply when the run does
\* not stream, one of the answers above to each request when it does.
RunAnswers(cfg) ==
    IF cfg.backend = "nim" \/ ~cfg.stream THEN <<>>
    ELSE IF cfg.backend = "ollama" THEN OllamaAnswers(TRUE) ELSE VllmAnswers

InitExec ==
    /\ config \in Configs /\ script = RunAnswers(config)
    /\ ExecIdle /\ AutoIdle /\ SamplerIdle
    /\ snapshot = None
    /\ StreamIdle

SpecExec == InitExec /\ [][NextExec]_vars

\* A run of the Ollama executor under the scheduling of the event loop: a coroutine
\* that can take its next step is resumed, and the reply of every HTTP call that was issued arrives
\* (as a body, a stream, an error or the 120 s timeout of the session).
InitExecOllama ==
    /\ config \in Configs /\ config.backend = "ollama"
    /\ script = OllamaAnswers(config.stream)
    /\ ExecIdle /\ AutoIdle /\ SamplerIdle
    /\ snapshot = None
    /\ StreamIdle

SpecExecFair == InitExecOllama /\ [][NextRun]_vars /\ WF_vars(NextRun)

\* ------------------------------------------------- one request, one reply
\* The driver on its own: a run of one request whose reply is fixed beforehand, or
\* left to the backend.
InitDriver ==
    /\ config \in {c \in Configs : c.total_requests = 1}
    /\ script \in {<<>>} \cup
                  {<<r>> : r \in Replies(config.backend, config.backend # "nim" /\ config.stream)}
    /\ ExecIdle
    /\ AutoIdle
    /\ SamplerIdle
    /\ snapshot = None
    /\ StreamIdle

SpecDriver == InitDriver /\ [][NextRun]_vars

\* ------------------------------------------------------ the search service
\* The executor is at rest in a configuration of its own; the tests of the search
\* end as the environment decides.
InitAuto ==
    /\ config = [backend |-> "ollama", stream |-> FALSE, batch_size |-> 1,
                 total_requests |-> 1, concurrency_level |-> 1]
    /\ script = <<>>
    /\ ExecIdle
    /\ AutoIdle
    /\ SamplerIdle
    /\ snapshot = None
    /\ StreamIdle

SpecAuto == InitAuto /\ [][NextAuto]_vars

\* A call of _run_benchmark_test is awaited by the running search; the end of the
\* test always changes the state, so this is ENABLED <<TestEndSteady>>_vars.
TestInFlight == is_running /\ test # <<>>

\* WF_vars(TestEndSteady), with its ENABLED written as the state predicate above:
\* the test in flight ends (its requests are answered or time out) and the event
\* loop resumes the search.
TestsEnd == []<>(~TestInFlight) \/ []<><<TestEndSteady>>_vars

\* The searches under the scheduling of the event loop.
SpecAutoFair == InitAuto /\ [][NextAutoSteady]_vars /\ TestsEnd

\* ------------------------------------------- the callers of the executor
\* The models Ollama lists.
InstalledModels == { <<"llama3:8b">> }

\* The configurations handed to create_benchmark.  requested_backend is the
\* 'backend' key of the dict, which neither create_benchmark nor execute_benchmark
\* of services/benchmark.py reads; backend names the executor that runs, and
\* BenchmarkService has the Ollama one only.
CreateConfigs ==
    [requested_backend : Backends \cup {"other"}, backend : {"ollama"},
     stream : BOOLEAN, batch_size : 1..MaxBatch,
     total_requests : 0..MaxRequests, concurrency_level : 1..MaxConcurrency,
     model_id : ModelIds]

\* get_model_info: the entry of the list whose name is the id, or None.
GetModelInfo(id) == IF id \in InstalledModels THEN Some([name |-> id]) ELSE None

\* if not model_info: raise
TargetMissing(info) == info = None

\* create_benchmark up to its call of execute_benchmark: the awaited lookup of
\* config['model_id'] in Ollama and the test of its result.
CreateCall ==
    /\ exec_pc = "called"
    /\ test = <<>>
    /\ exec_pc' = IF TargetMissing(GetModelInfo(config.model_id)) THEN "rejected" ELSE "idle"
    /\ UNCHANGED << config, script, use_streaming, batch_size, sem_value, batches,
                    batch_idx, launched, n_pending, n_inflight, n_closing, n_done,
                    success_count, total_tokens, latencies, n_ttfts, n_itls,
                    collector_running, recorded_tokens, result, n_issued, n_failed,
                    reading, cancelled, gather_exc >>
    /\ UNCHANGED autoVars
    /\ UNCHANGED << samplerVars, snapshot, streamVars >>

\* _run_benchmark_test up to its await of get_model_info: the configuration is
\* built and reset_peaks is called.
TestReset ==
    /\ exec_pc = "called"
    /\ test # <<>>
    /\ recorded_tokens' = 0
    /\ exec_pc' = "lookup"
    /\ UNCHANGED << config, script, use_streaming, batch_size, sem_value, batches,
                    batch_idx, launched, n_pending, n_inflight, n_closing, n_done,
                    success_count, total_tokens, latencies, n_ttfts, n_itls,
                    collector_running, result, n_issued, n_failed,
                    reading, cancelled, gather_exc >>
    /\ UNCHANGED autoVars
    /\ UNCHANGED << samplerVars, snapshot, streamVars >>

\* The lookup of the model in Ollama returns to _run_benchmark_test, which tests
\* its result.
TestLookup ==
    /\ exec_pc = "lookup"
    /\ exec_pc' = IF TargetMissing(GetModelInfo(config.model_id)) THEN "rejected" ELSE "idle"
    /\ UNCHANGED << config, script, use_streaming, batch_size, sem_value, batches,
                    batch_idx, launched, n_pending, n_inflight, n_closing, n_done,
                    success_count, total_tokens, latencies, n_ttfts, n_itls,
                    collector_running, recorded_tokens, result, n_issued, n_failed,
                    reading, cancelled, gather_exc >>
    /\ UNCHANGED autoVars
    /\ UNCHANGED << samplerVars, snapshot, streamVars >>

NextCreate == CreateCall \/ TestReset \/ TestLookup \/ NextExec

\* A call of create_benchmark, or the first test of a search that has just begun;
\* the sampler may hold the tokens of an earlier run.
InitCreate ==
    /\ \/ /\ config \in CreateConfigs
          /\ AutoIdle
       \/ /\ is_running = TRUE /\ should_stop = FALSE
          /\ current_results = <<[tests |-> <<>>, optimal_config |-> None, status |-> "running"]>>
          /\ req = [r \in 1..MaxStarts |-> IF r = 1 THEN "searching" ELSE "new"]
          /\ stop_reply = "none"
          /\ phase = "probe" /\ loop_i = 1 /\ loop_j = 0
          /\ token_sizes = <<>> /\ max_supported_tokens = 0 /\ probe_failed = 0
          /\ batch_results = <<>> /\ best_config = <<>>
          /\ test = Some(ProbeTest(1)) /\ tests_started = 1
          /\ model_id \in ModelIds /\ n_saved = 0 /\ last_saved = <<>>
          /\ config = [x \in DOMAIN TestRunConfig(ProbeTest(1)) \cup {"model_id"} |->
                          IF x = "model_id" THEN model_id ELSE TestRunConfig(ProbeTest(1))[x]]
    /\ script = RunAnswers(config)
    /\ exec_pc = "called"
    /\ recorded_tokens \in {0, 3}
    /\ ExecRest
    /\ SamplerIdle
    /\ snapshot = None
    /\ StreamIdle

SpecCreate == InitCreate /\ [][NextCreate]_vars

\* The search at the end of its capacity probe, the first streaming test started:
\* probe k was the first to succeed, or all the probes failed.
InitSweep ==
    /\ config = [backend |-> "ollama", stream |-> FALSE, batch_size |-> 1,
                 total_requests |-> 1, concurrency_level |-> 1]
    /\ script = <<>>
    /\ ExecIdle
    /\ is_running = TRUE /\ should_stop = FALSE /\ stop_reply = "none"
    /\ current_results = <<[tests |-> <<>>, optimal_config |-> None, status |-> "running"]>>
    /\ req = [r \in 1..MaxStarts |-> IF r = 1 THEN "searching" ELSE "new"]
    /\ \E k \in 1..(Len(ProbeSizes) + 1) :
          /\ probe_failed = k - 1
          /\ max_supported_tokens = (IF k <= Len(ProbeSizes) THEN ProbeSizes[k] ELSE 32)
          /\ token_sizes = TokenSizesFor(max_supported_tokens)
          /\ tests_started = Min(k, Len(ProbeSizes)) + 1
    /\ phase = "streaming" /\ loop_i = 1 /\ loop_j = 0
    /\ batch_results = <<>> /\ best_config = <<>>
    /\ test = Some(StreamTest(1, token_sizes))
    /\ model_id \in ModelIds /\ n_saved = 0 /\ last_saved = <<>>
    /\ SamplerIdle
    /\ snapshot = None
    /\ StreamIdle

SpecSweep == InitSweep /\ [][NextSweep]_vars

\* One streaming request on its own; the executor, the search and the sampler rest.
InitStream ==
    /\ config = [backend |-> "ollama", stream |-> TRUE, batch_size |-> 1,
                 total_requests |-> 1, concurrency_level |-> 1]
    /\ script = <<>>
    /\ ExecIdle
    /\ AutoIdle
    /\ SamplerIdle
    /\ snapshot = None
    /\ StreamIdle

SpecStream == InitStream /\ [][NextStream]_vars

\* ------------------------------------------------------------------ claims
Finished == exec_pc \in {"returned", "raised"}

InsideGate == n_inflight + n_closing

\* C1: in a run that is not batched, the requests inside the concurrency gate (HTTP
\* call issued, slot not yet given back) never number more than concurrency_level,
\* whatever the order of starts and completions and whatever fails.
C1_GateBound ==
    (exec_pc = "running" /\ ~UsesBatches) => InsideGate <= config.concurrency_level

C1_Witness ==
    /\ exec_pc = "running" /\ ~UsesBatches
    /\ config.concurrency_level >= 2
    /\ InsideGate = config.concurrency_level
    /\ n_pending > 0
    /\ n_failed > 0

\* The number of requests in the first k batches.
PrefixSize(k) == SumSeq([j \in 1..k |-> Len(batches[j])])

\* C2: in batched mode a request of batch k+1 is started only when every request of
\* batch k has returned, and at most min(batch_size, concurrency_level) requests
\* are inside the gate.
C2_BatchesSequential ==
    (exec_pc = "running" /\ UsesBatches) =>
        /\ \A k \in 1..Len(batches) : n_issued > PrefixSize(k) => n_done >= PrefixSize(k)
        /\ InsideGate <= Min(batch_size, config.concurrency_level)

C2_Witness ==
    /\ exec_pc = "running" /\ UsesBatches
    /\ batch_idx = 2
    /\ n_inflight > 0
    /\ n_done = PrefixSize(1)
    /\ n_failed > 0

CeilDiv(n, b) == IF n % b = 0 THEN n \div b ELSE n \div b + 1

\* C3: in batched mode the n requests are cut into ceil(n/b) consecutive batches,
\* all of size b but the last, which holds the remaining n - (ceil(n/b)-1)*b, and
\* the run issues exactly n requests; n = 10, b = 4 gives the sizes 4, 4, 2.
C3_Partition ==
    /\ (exec_pc # "idle" /\ UsesBatches) =>
          LET n == config.total_requests
              b == batch_size
              m == Len(batches)
          IN /\ m = CeilDiv(n, b)
             /\ \A k \in 1..m : batches[k] = RangeList((k - 1) * b, (k - 1) * b + Len(batches[k]))
             /\ \A k \in 1..(m - 1) : Len(batches[k]) = b
             /\ m > 0 => Len(batches[m]) = n - (m - 1) * b
             /\ n_issued <= n
             /\ Finished => n_issued = n
    /\ [k \in 1..Len(Batches(10, 4)) |-> Len(Batches(10, 4)[k])] = <<4, 4, 2>>

C3_Witness ==
    /\ Finished /\ UsesBatches
    /\ Len(batches) = 2
    /\ Len(batches[2]) < batch_size
    /\ n_issued = config.total_requests

\* C4: a run in which no request succeeds, a run of zero requests included, ends by
\* raising and never returns a metrics record.
C4_NoSuccessRaises ==
    /\ (Finished /\ n_done = n_failed) => (exec_pc = "raised" /\ result = <<>>)
    /\ result # <<>> => (exec_pc = "returned" /\ n_done > n_failed /\ latencies # <<>>)
    /\ config.total_requests = 0 => exec_pc # "returned"

C4_Witness ==
    /\ exec_pc = "raised"
    /\ config.total_requests >= 2
    /\ n_failed = config.total_requests
    /\ n_issued = config.total_requests

\* C5: in the Ollama executor a failing request never aborts the run: the run raises
\* only when no request succeeded, and a run with a success has attempted all n
\* requests and returns a result with successful_requests + failed_requests = n,
\* failed_requests being the number of requests that ended without a success.
C5_FailuresAbsorbed ==
    config.backend = "ollama" =>
        /\ exec_pc = "raised" => n_failed = n_done
        /\ exec_pc = "returned" =>
              /\ n_issued = config.total_requests
              /\ n_done = config.total_requests
              /\ result # <<>>
              /\ result[1].successful_requests + result[1].failed_requests
                    = config.total_requests
              /\ result[1].failed_requests = n_failed
              /\ result[1].successful_requests = n_done - n_failed

C5_Witness ==
    /\ config.backend = "ollama"
    /\ exec_pc = "returned"
    /\ n_failed >= 1
    /\ result[1].successful_requests >= 1
    /\ result[1].failed_requests = n_failed

\* The token count the claim expects for a 200 reply with a JSON body.
ExpectedTokens(backend, body) ==
    IF backend = "ollama"
    THEN IF IsSome(body.eval_count) THEN Get(body.eval_count)
         ELSE WordCount(IF IsSome(body.response) THEN Get(body.response) ELSE <<>>)
    ELSE IF IsSome(body.usage) /\ IsSome(Get(body.usage)) THEN Get(Get(body.usage))
         ELSE WordCount(IF IsSome(body.choices) /\ Get(body.choices) # <<>>
                           /\ IsSome(Get(body.choices)[1])
                        THEN Get(Get(body.choices)[1]) ELSE <<>>)

\* C6: a non-streaming request answered with 200 and a JSON body is recorded as a
\* success whose token count is the backend's own count when the body has one
\* (eval_count, with or without eval_duration; usage.completion_tokens) and else
\* the number of words of the generated text.
C6_JsonReplyCounted ==
    (script # <<>> /\ script[1].kind = "json" /\ n_done = 1) =>
        /\ success_count = 1
        /\ Len(latencies) = 1
        /\ n_failed = 0
        /\ total_tokens = ExpectedTokens(config.backend, script[1].body)

\* -------------------------------------------------- claims on the Auto-Tuner
Status == current_results[1].status

RecordedTests == current_results[1].tests

IsPrefix(a, b) == Len(a) <= Len(b) /\ SubSeq(b, 1, Len(a)) = a

\* C7: a call of run_auto_benchmark made while is_running is true raises at once
\* and leaves is_running, should_stop and current_results of the search in progress
\* as they were, also once the rejected call has returned.
C7_RejectedCallChangesNothing ==
    [][(\E r \in 1..MaxStarts : req[r] = "started" /\ req'[r] = "crashed")
         => /\ is_running /\ is_running'
            /\ should_stop' = should_stop
            /\ current_results' = current_results
            /\ test' = test /\ phase' = phase]_vars

C7_Witness ==
    /\ \E r \in 1..MaxStarts : req[r] = "crashed"
    /\ \E r \in 1..MaxStarts : req[r] = "searching"
    /\ is_running
    /\ Status = "running"
    /\ Len(RecordedTests) >= 1

\* C8 (as stated): once the stop flag is set during a running search no new test
\* is started in any phase.
C8_NoTestAfterStop ==
    [][(is_running /\ should_stop) => tests_started' <= tests_started]_vars

\* C9 (as stated): after an accepted stop the session status is "stopping" until
\* the search ends.
C9_StatusStopping ==
    (is_running /\ should_stop) => Status = "stopping"

\* C9 (amended): an accepted stop is answered "stopping" and leaves the session
\* status "running" until the search ends; the search then ends with status
\* "completed" and every test recorded so far kept; the status of a session is
\* always one of running, completed, error.
C9_StopKeepsRunning ==
    /\ [](current_results # <<>> =>
            /\ Status \in {"running", "completed", "error"}
            /\ is_running => Status = "running")
    /\ [][/\ (is_running /\ stop_reply' # stop_reply) =>
                (stop_reply' = "stopping" /\ should_stop' /\ is_running'
                 /\ current_results' = current_results)
          /\ (is_running /\ should_stop) =>
                /\ IsPrefix(RecordedTests, current_results'[1].tests)
                /\ ~is_running' => current_results'[1].status = "completed"]_vars

C9_Witness ==
    /\ ~is_running
    /\ should_stop
    /\ stop_reply = "stopping"
    /\ current_results # <<>>
    /\ Status = "completed"
    /\ Len(RecordedTests) >= 1

\* C10 (as stated): of the start requests handled together or while a search is
\* active, at most one is answered "started".
C10_OneStartAccepted ==
    Cardinality({r \in 1..MaxStarts : req[r] \in {"started", "searching"}}) <= 1

\* Latency samples of a finished set of requests: h slow requests answered before
\* l fast ones.
LatencySamples ==
    { [i \in 1..(h + l) |-> IF i <= h THEN 30 ELSE 10] :
         h \in 0..MaxSamples, l \in 0..MaxSamples }

\* The executor after its gather: every request has returned with a success, and
\* the latency of each is in the list.
InitReduce ==
    /\ \E lats \in {x \in LatencySamples : Len(x) <= MaxSamples} :
          /\ latencies = lats
          /\ config = [backend |-> "nim", stream |-> FALSE, batch_size |-> 1,
                       total_requests |-> Len(lats), concurrency_level |-> 1]
          /\ n_done = Len(lats) /\ n_issued = Len(lats)
          /\ success_count = Len(lats) /\ n_ttfts = Len(lats)
    /\ script = <<>>
    /\ exec_pc = "running" /\ use_streaming = FALSE /\ batch_size = 1 /\ sem_value = 1
    /\ batches = <<>> /\ batch_idx = 0 /\ launched = TRUE
    /\ n_pending = 0 /\ n_inflight = 0 /\ n_closing = 0
    /\ total_tokens = 0 /\ n_itls = 0 /\ collector_running = TRUE /\ recorded_tokens = 0
    /\ result = <<>> /\ n_failed = 0
    /\ reading = EmptyBag /\ cancelled = FALSE /\ gather_exc = FALSE
    /\ AutoIdle
    /\ SamplerIdle
    /\ snapshot = None
    /\ StreamIdle

SpecReduce == InitReduce /\ [][Finish]_vars

\* The sampler and the runs; no search, and the request side of the runs left out.
InitSampler ==
    /\ config = [backend |-> "ollama", stream |-> FALSE, batch_size |-> 1,
                 total_requests |-> 1, concurrency_level |-> 1]
    /\ script = <<>>
    /\ ExecIdle
    /\ AutoIdle
    /\ SamplerIdle
    /\ snapshot = None
    /\ StreamIdle

SpecSampler == InitSampler /\ [][NextSampler]_vars

\* ------------------------------------------- the selection of the best test
MaxList == 3

\* Throughputs and mean latencies of the tests the selection is applied to.
TpsValues == {5, 60, 95, 100}
LatencyChoices == {10, 20, 50}

\* A recorded test at position i of the list: the result of a test, or the
\* error_result of a failed one (throughput 0, latency 0).
TestEntries(i) ==
    LET cfg == TestConfig(4 * (2 ^ i), FALSE, 1, 32, 10)
    IN { ResultEntry(cfg, [error |-> FALSE, tokens_per_second |-> t, latency |-> l]) :
            t \in TpsValues, l \in LatencyChoices }
       \cup { ResultEntry(cfg, [error |-> TRUE, tokens_per_second |-> 0, latency |-> 0]) }

RECURSIVE TestListsOfLen(_)
TestListsOfLen(k) ==
    IF k = 0 THEN {<<>>}
    ELSE {Append(ts, e) : ts \in TestListsOfLen(k - 1), e \in TestEntries(k)}

\* The test lists of at most n tests.
TestLists(n) == UNION {TestListsOfLen(k) : k \in 0..n}

\* The search has recorded its tests and reaches the selection.
InitSelect ==
    /\ config = [backend |-> "ollama", stream |-> FALSE, batch_size |-> 1,
                 total_requests |-> 1, concurrency_level |-> 1]
    /\ script = <<>>
    /\ ExecIdle
    /\ is_running = TRUE /\ should_stop = FALSE
    /\ \E ts \in TestLists(MaxList) :
          current_results = <<[tests |-> ts, optimal_config |-> None, status |-> "running"]>>
    /\ req = [r \in 1..MaxStarts |-> IF r = 1 THEN "searching" ELSE "new"]
    /\ stop_reply = "none"
    /\ phase = "select" /\ loop_i = 0 /\ loop_j = 0
    /\ token_sizes = <<>> /\ max_supported_tokens = 0 /\ probe_failed = 0
    /\ batch_results = <<>> /\ best_config = <<>> /\ test = <<>> /\ tests_started = 0
    /\ model_id \in ModelIds /\ n_saved = 0 /\ last_saved = <<>>
    /\ SamplerIdle
    /\ snapshot = None
    /\ StreamIdle

\* self.current_results["optimal_config"] = self._find_best_config(tests), to the
\* end of run_auto_benchmark.
Select ==
    /\ phase = "select"
    /\ current_results' =
          <<[current_results[1] EXCEPT !.optimal_config = FindBestConfig(current_results[1].tests),
                                       !.status = "completed"]>>
    /\ is_running' = FALSE
    /\ req' = [r \in 1..MaxStarts |-> IF req[r] = "searching" THEN "done" ELSE req[r]]
    /\ phase' = "none"
    /\ SaveResults(current_results')
    /\ UNCHANGED << should_stop, stop_reply, loop_i, loop_j, token_sizes,
                    max_supported_tokens, probe_failed,
       batch_results,
                    best_config, test, tests_started, model_id >>
    /\ UNCHANGED execVars
    /\ UNCHANGED << samplerVars, snapshot, streamVars >>

SpecSelect == InitSelect /\ [][Select]_vars

Selected == current_results # <<>> /\ ~is_running /\ current_results[1].status = "completed"

Qualifies(t) == ~t.error /\ t.tokens_per_second >= MIN_ACCEPTABLE_TPS

Range(f) == {f[i] : i \in DOMAIN f}

ExampleTests ==
    << ResultEntry(TestConfig(8, FALSE, 1, 32, 10),
                   [error |-> FALSE, tokens_per_second |-> 100, latency |-> 50]),
       ResultEntry(TestConfig(16, FALSE, 1, 32, 10),
                   [error |-> FALSE, tokens_per_second |-> 95, latency |-> 20]),
       ResultEntry(TestConfig(32, FALSE, 1, 32, 10),
                   [error |-> FALSE, tokens_per_second |-> 60, latency |-> 10]) >>

\* C11: when some test qualifies (no error, throughput >= MIN_ACCEPTABLE_TPS) the
\* selection is a qualifying test whose throughput is at least 90% of the highest
\* qualifying throughput and whose latency is the lowest of the qualifying tests in
\* that band; for (8,100,50), (16,95,20), (32,60,10) it is the test of concurrency 16.
C11_BestInBand ==
    /\ FindBestConfig(ExampleTests) = Some(ExampleTests[2])
    /\ Selected =>
         LET Q == {t \in Range(RecordedTests) : Qualifies(t)}
             Band == {t \in Q : \A u \in Q : 10 * t.tokens_per_second >= 9 * u.tokens_per_second}
             r == current_results[1].optimal_config
         IN Q # {} =>
               /\ r # None
               /\ Get(r) \in Band
               /\ \A t \in Band : Get(r).latency <= t.latency

C11_Witness ==
    /\ Selected
    /\ RecordedTests = ExampleTests
    /\ current_results[1].optimal_config = Some(ExampleTests[2])

\* C12: when no test qualifies the selection is a test of the highest throughput of
\* the whole list, and it is None exactly when the list is empty.
C12_Fallback ==
    Selected =>
       LET r == current_results[1].optimal_config
       IN /\ (r = None) <=> (RecordedTests = <<>>)
          /\ (RecordedTests # <<>> /\ \A t \in Range(RecordedTests) : ~Qualifies(t)) =>
                /\ Get(r) \in Range(RecordedTests)
                /\ \A t \in Range(RecordedTests) :
                      Get(r).tokens_per_second >= t.tokens_per_second

C12_Witness ==
    /\ Selected
    /\ Len(RecordedTests) = 3
    /\ \A t \in Range(RecordedTests) : ~Qualifies(t)
    /\ RecordedTests[1].error
    /\ RecordedTests[3].tokens_per_second = 5
    /\ current_results[1].optimal_config = Some(RecordedTests[3])

\* -------------------------------------------- claims on the Telemetry Sampler
Exited == exec_pc \in {"returned", "raised", "aborted"}

\* C13: once the executor has started the sampler for a run, stop_collector is
\* called before the run returns or raises, on every exit path: a result, a run
\* without success, an exception raised while the requests are issued or the metrics
\* reduced; the sampler stays started as long as the run goes on.
C13_SamplerStopped ==
    /\ Exited => ~collector_running
    /\ exec_pc = "running" => collector_running

\* A run was cancelled with a request waiting at the gate and one in flight, which
\* is still closing its session.
C13_Witness ==
    /\ exec_pc = "aborted" /\ cancelled
    /\ n_closing > 0
    /\ n_done > 0 /\ n_issued < config.total_requests
    /\ ~collector_running

AliveThreads == {t \in 1..MaxThreads : Alive(t)}

\* C14 (as stated): at most one sampling loop is alive at any time, and once
\* stop_collector has returned (and until the next start) no sampling loop is
\* inside a tick.
C14_OneLoopNoLateTick ==
    /\ Cardinality(AliveThreads) <= 1
    /\ (~running /\ collector_thread = None /\ caller_pc = "idle") =>
          \A t \in 1..MaxThreads : th[t] \notin {"tick", "calc", "snap", "hist"}

\* C15 (as stated): start_collector called while a sampling loop is running creates
\* no second loop and changes nothing, and stop_collector called while no loop is
\* running changes nothing.
C15_StartStopIdempotent ==
    [][/\ (\E r \in 1..MaxRuns : run_pc[r] = "reset" /\ run_pc'[r] = "active"
              /\ AliveThreads # {})
          => UNCHANGED << threadVars, counterVars >>
       /\ (\E r \in 1..MaxRuns : run_pc[r] = "active" /\ run_pc'[r] # "active"
              /\ AliveThreads = {})
          => UNCHANGED << threadVars, counterVars >>]_vars

\* C16: under every interleaving of record_tokens calls with sampler ticks,
\* get_peaks and each other no increment is lost: outside a record_tokens call the
\* cumulative counter is the sum of the amounts recorded since the last reset.
C16_NoLostIncrement ==
    caller_pc # "recording" => tokens_count = recorded_sum

C16_Witness ==
    /\ caller_pc = "idle"
    /\ tokens_count = 2
    /\ tokens_last_window = 1
    /\ peak_tps = 1
    /\ peaks_reply # None
    /\ \E t \in 1..MaxThreads : th[t] = "calc"

\* C17: get_peaks after reset_peaks, with no tick and no record_tokens in between,
\* answers peak_tps = 0, peak_gpu_util = 0, peak_gpu_mem = 0 and total_tokens = 0.
C17_ResetThenPeaksZero ==
    (fresh /\ peaks_reply # None) =>
        Get(peaks_reply) = [peak_tps |-> 0, peak_gpu_util |-> 0, peak_gpu_mem |-> 0,
                            total_tokens |-> 0]

C17_Witness ==
    /\ fresh
    /\ peaks_reply # None
    /\ \E r \in 1..MaxRuns : run_pc[r] = "done"
    /\ \E r \in 1..MaxRuns : run_pc[r] = "active"
    /\ AliveThreads # {}

ActiveRuns == {r \in 1..MaxRuns : run_pc[r] \in {"reset", "active", "stopping"}}

\* C18 (as stated): at most one Load Executor run is active at any time.
C18_OneRunActive ==
    Cardinality(ActiveRuns) <= 1

SearchOver == ~is_running /\ \E r \in 1..MaxStarts : req[r] = "done"

\* C19 (as stated): a search that passed the guard has persisted its session exactly
\* once when it returns, with status "completed" and optimal_config the selection
\* over all the recorded tests.
C19_PersistedOnce ==
    SearchOver =>
        /\ n_saved = 1
        /\ last_saved = current_results
        /\ last_saved[1].status = "completed"
        /\ last_saved[1].optimal_config = FindBestConfig(last_saved[1].tests)

\* ------------------------------------------------- claims on the metrics
\* C20: for a run with n >= 1 successes p95_latency is the element at index
\* floor(0.95 * n) of the ascending latencies, an index within 0..n-1 (9 for n = 10):
\* at most that many samples are below the value and more than that many are not
\* above it.
C20_P95Index ==
    /\ \A n \in 1..MaxSamples :
          /\ P95Index(n) \in 0..(n - 1)
          /\ 100 * P95Index(n) <= 95 * n
          /\ 95 * n < 100 * (P95Index(n) + 1)
    /\ P95Index(10) = 9
    /\ exec_pc = "returned" =>
          LET n == Len(latencies)
              v == result[1].p95_latency
          IN /\ n >= 1
             /\ Cardinality({i \in 1..n : latencies[i] < v}) <= P95Index(n)
             /\ Cardinality({i \in 1..n : latencies[i] <= v}) >= P95Index(n) + 1

C20_Witness ==
    /\ exec_pc = "returned"
    /\ Len(latencies) = 21
    /\ latencies[1] = 30 /\ latencies[2] = 10
    /\ result[1].p95_latency = 10

\* ------------------------------------------- claims on the request driver
\* The times at which the lines with content were read.
ContentTimes ==
    LET c == SelectSeq(arrivals, LAMBDA a : HasContent(a.line))
    IN [i \in 1..Len(c) |-> c[i].at]

\* C21: a streaming request that succeeds, started at t0 and whose chunks with
\* content were read at t1 <= ... <= tk, has recorded the time-to-first-token
\* t1 - t0 and, when k >= 2, one inter-token latency that is the mean of the deltas
\* t(i+1) - t(i); a chunk without content adds no timestamp, and with k < 2 no
\* inter-token sample is recorded.
C21_StreamTimings ==
    st_pc = "done" =>
        LET T == ContentTimes
            k == Len(T)
        IN /\ token_timestamps = T
           /\ \A i \in 1..(k - 1) : T[i] <= T[i + 1]
           /\ \A i \in 1..k : started_at <= T[i]
           /\ ttfts = IF k >= 1 THEN <<T[1] - started_at>> ELSE <<>>
           /\ k < 2 => inter_token_latencies = <<>>
           /\ k >= 2 =>
                 /\ Len(inter_token_latencies) = 1
                 /\ inter_token_latencies[1].den > 0
                 /\ inter_token_latencies[1].num * (k - 1) =
                       inter_token_latencies[1].den
                          * SumSeq([i \in 1..(k - 1) |-> T[i + 1] - T[i]])
           /\ stream_state.stamps = k
           /\ stream_state.ttft = Len(ttfts)

C21_Witness ==
    /\ st_pc = "done"
    /\ Len(arrivals) = 4
    /\ ~HasContent(arrivals[2].line)
    /\ started_at = 1
    /\ ContentTimes = <<4, 5, 7>>
    /\ ttfts = <<3>>
    /\ inter_token_latencies = <<[num |-> 3, den |-> 2]>>

\* C22: with stream true the configured batch_size is ignored: the effective batch
\* size is 1, the total_requests requests are launched together under the gate and
\* never batch after batch, and the result reports batch_size = 1; the search's test
\* runner hands batch_size 1 to the executor for every streaming test.
C22_StreamingUnbatched ==
    /\ (config.backend = "ollama" /\ config.stream /\ exec_pc # "idle") =>
          /\ use_streaming
          /\ batch_size = 1
          /\ ~UsesBatches /\ batches = <<>> /\ batch_idx = 0
          /\ n_issued > 0 => launched
          /\ launched => Outstanding + n_done = config.total_requests
          /\ exec_pc = "returned" =>
                /\ result[1].batch_size = Some(1)
                /\ result[1].streaming_enabled = Some(TRUE)
    /\ \A b \in Range(BATCH_SIZES) :
          /\ TestRunConfig(TestConfig(MAX_CONCURRENCY, TRUE, b, 32, 10)).batch_size = 1
          /\ TestRunConfig(TestConfig(MAX_CONCURRENCY, TRUE, b, 32, 10)).stream

C22_Witness ==
    /\ config.backend = "ollama" /\ config.stream
    /\ config.batch_size = 2
    /\ config.total_requests = 3
    /\ exec_pc = "returned"
    /\ n_issued = 3
    /\ result[1].batch_size = Some(1)

\* The target of the call cannot be resolved: the backend asked for is none of the
\* supported ones, or the model is not listed.
Unresolved ==
    IF test = <<>>
    THEN \/ config.requested_backend \notin Backends
         \/ GetModelInfo(config.model_id) = None
    ELSE GetModelInfo(config.model_id) = None

\* The caller has not gone past its checks, or was stopped by them.
StoppedEarly ==
    /\ exec_pc \in {"called", "lookup", "rejected"}
    /\ ~collector_running
    /\ n_issued = 0
    /\ result = <<>>

\* C23: when the target cannot be resolved (model not found, unsupported backend)
\* create_benchmark and the search's test runner raise before the executor is
\* entered: the sampler is never started and no generation request is issued.
C23_UnresolvedStopsEarly ==
    /\ Unresolved => StoppedEarly
    /\ exec_pc = "rejected" => Unresolved

\* The part of C23 the two callers do keep: a model that is not listed stops both
\* before the executor, and nothing else is rejected.
ModelNotFoundStopsEarly ==
    /\ GetModelInfo(config.model_id) = None => StoppedEarly
    /\ exec_pc = "rejected" => GetModelInfo(config.model_id) = None

\* create_benchmark was given a backend that is not supported and a listed model:
\* the sampler runs and a request was issued.
UnsupportedBackendRuns ==
    /\ test = <<>>
    /\ config.requested_backend \notin Backends
    /\ exec_pc = "running"
    /\ collector_running
    /\ n_issued > 0

\* ------------------------------------------ claims on the phases of the search
\* A test of one of the three recorded phases ends in this step.
SweepPhases == {"streaming", "batch", "token"}

TestEnds == is_running /\ test # <<>> /\ phase \in SweepPhases /\ test' # test

\* The entry the step has appended to the test list.
NewEntry == current_results'[1].tests[Len(current_results'[1].tests)]

\* The step goes on to the test of phase ph at the iterations i and j.
GoesTo(ph, i, j) == phase' = ph /\ loop_i' = i /\ loop_j' = j /\ test' # <<>>

\* C24 (as stated): a test that fails in the streaming sweep, the batch sweep or the
\* token-size scaling is recorded as an error entry and does not end its phase: while
\* the stop flag is not set the search goes on to the next concurrency, batch size
\* or token size of the phase, also when every test at the current concurrency failed.
C24_ErrorsDoNotEndPhase ==
    [][(TestEnds /\ ~should_stop /\ Len(current_results'[1].tests) = Len(RecordedTests) + 1
          /\ NewEntry.error)
       => /\ (phase = "streaming" /\ loop_i < Len(CONCURRENCY_STEPS))
                => GoesTo("streaming", loop_i + 1, 0)
          /\ (phase = "batch" /\ loop_j < Len(BatchSizesFor(CONCURRENCY_STEPS[loop_i])))
                => GoesTo("batch", loop_i, loop_j + 1)
          /\ (phase = "batch" /\ loop_j = Len(BatchSizesFor(CONCURRENCY_STEPS[loop_i]))
                /\ loop_i < Len(CONCURRENCY_STEPS))
                => GoesTo("batch", loop_i + 1, 1)
          /\ (phase = "token" /\ loop_i < Len(LargerTokenSizes(token_sizes)))
                => GoesTo("token", loop_i + 1, 0)]_vars

\* C28 (as stated): in the batch sweep, for every concurrency value reached while
\* the stop flag is not set, one non-streaming test is run for each batch size of
\* BATCH_SIZES that does not exceed the concurrency, in ascending order: the sweep
\* leaves a concurrency value only after the test of its largest batch size.
C28_EveryBatchSizeTested ==
    [][(TestEnds /\ phase = "batch" /\ ~should_stop)
       => /\ Get(test) = BatchTest(loop_i, loop_j, token_sizes)
          /\ ~Get(test).streaming
          /\ \/ GoesTo("batch", loop_i, loop_j + 1)
             \/ loop_j = Len(BatchSizesFor(CONCURRENCY_STEPS[loop_i]))]_vars

\* C29: every test started in the streaming sweep, the batch sweep and the
\* token-size scaling adds exactly one entry to current_results['tests'], the result
\* of the test or an entry with an error field, at the end of the list; nothing else
\* changes the list while the search runs.
C29_OneEntryPerTest ==
    [][/\ TestEnds =>
             /\ Len(current_results'[1].tests) = Len(RecordedTests) + 1
             /\ IsPrefix(RecordedTests, current_results'[1].tests)
             /\ \E o \in TestOutcomes : NewEntry = ResultEntry(Get(test), o)
       /\ (is_running /\ ~TestEnds) => current_results'[1].tests = RecordedTests]_vars

C29_Witness ==
    /\ is_running
    /\ phase = "token"
    /\ Len(RecordedTests) = 3
    /\ RecordedTests[1].streaming /\ ~RecordedTests[1].error
    /\ ~RecordedTests[2].streaming /\ RecordedTests[2].error
    /\ RecordedTests[3].token_size > RecordedTests[1].token_size

\* C30: the streaming sweep visits the concurrency values in ascending order, and
\* starts no further streaming test after a streaming test that measured a
\* throughput below MIN_ACCEPTABLE_TPS or that ran at a concurrency >= MAX_CONCURRENCY.
C30_StreamingSweepStops ==
    [][(TestEnds /\ phase = "streaming" /\ phase' = "streaming")
       => /\ loop_i' = loop_i + 1
          /\ Get(test').concurrency = CONCURRENCY_STEPS[loop_i']
          /\ Get(test').concurrency > Get(test).concurrency
          /\ Get(test').streaming
          /\ NewEntry.concurrency = Get(test).concurrency
          /\ NewEntry.error \/ NewEntry.tokens_per_second >= MIN_ACCEPTABLE_TPS
          /\ NewEntry.concurrency < MAX_CONCURRENCY]_vars

C30_Witness ==
    /\ phase = "batch"
    /\ Len(RecordedTests) = Len(CONCURRENCY_STEPS)
    /\ \A i \in 1..Len(RecordedTests) :
          RecordedTests[i].streaming /\ RecordedTests[i].concurrency = CONCURRENCY_STEPS[i]
    /\ RecordedTests[3].error
    /\ RecordedTests[9].concurrency = MAX_CONCURRENCY
    /\ RecordedTests[9].tokens_per_second >= MIN_ACCEPTABLE_TPS

\* ------------------------------------------ claims on the run's accumulators
\* C25 (as stated): when all the requests of a run have completed, the sampler's
\* cumulative token counter equals the run's total_tokens, in streaming and in
\* non-streaming mode and for every backend variant.
C25_SamplerCountsRunTokens ==
    (exec_pc # "idle" /\ ~cancelled /\ AllLaunched /\ GatherDone) =>
        recorded_tokens = total_tokens

\* C26 (as stated): a request that ends in failure (status other than 200,
\* connection error, timeout, exception while the answer is read or parsed, at any
\* point of a stream) leaves success_count, total_tokens, latencies, ttfts and
\* inter_token_latencies as they were.
C26_FailureLeavesAccumulators ==
    (script # <<>> /\ n_done = 1 /\ n_failed = 1) =>
        /\ success_count = 0
        /\ total_tokens = 0
        /\ latencies = <<>>
        /\ n_ttfts = 0
        /\ n_itls = 0

\* C27 (as stated): every read and every write of the sampler's shared state by a
\* tick, record_tokens, reset_peaks, get_peaks or the construction of a snapshot is
\* made with the collector's lock held: none of them happens while another thread
\* is inside a block of the lock.
C27_AccessUnderLock ==
    [][(\/ counterVars' # counterVars
        \/ (peaks_reply' # peaks_reply /\ peaks_reply' # None)
        \/ \E t \in 1..MaxThreads : th[t] = "snap" /\ th'[t] # "snap")
       => (~lock_held \/ (caller_pc = "recording" /\ caller_pc' = "idle"))]_vars

\* The candidate sizes of the capacity probe, as the specification lists them.
Candidates == <<512, 256, 128, 64, 32>>

\* A test of the capacity probe ends.
ProbeTestEnds == is_running /\ phase = "probe" /\ test # <<>> /\ test' # test

\* C31: the capacity probe tests 512, 256, 128, 64, 32 in this order with 2 requests
\* each (one request at a time, not streaming, batch size 1); the test of a size is
\* run only after every larger size failed; the first size whose test succeeds is
\* the size returned, and no smaller size is tested; when every size fails, 32 is
\* returned; in each case the search goes on (to its first streaming test, or to
\* its regular end when a stop was requested) and is never marked as failed.
C31_ProbeDescending ==
    [][ProbeTestEnds =>
          /\ loop_i \in 1..Len(Candidates)
          /\ Get(test) = [concurrency |-> 1, streaming |-> FALSE, batch_size |-> 1,
                          token_size |-> Candidates[loop_i], total_requests |-> 2]
          /\ probe_failed = loop_i - 1
          /\ tests_started = loop_i
          /\ IF probe_failed' = probe_failed /\ phase' # "none"
             THEN /\ phase' = "streaming"
                  /\ max_supported_tokens' = Candidates[loop_i]
             ELSE IF probe_failed' = probe_failed + 1 /\ loop_i < Len(Candidates)
             THEN /\ phase' = "probe" /\ loop_i' = loop_i + 1
                  /\ Get(test') = [concurrency |-> 1, streaming |-> FALSE, batch_size |-> 1,
                                   token_size |-> Candidates[loop_i + 1],
                                   total_requests |-> 2]
             ELSE IF probe_failed' = probe_failed + 1
             THEN /\ phase' = "streaming"
                  /\ max_supported_tokens' = 32
             ELSE /\ phase' = "none" /\ should_stop
          /\ IF phase' = "none"
             THEN ~is_running' /\ current_results'[1].status = "completed"
             ELSE is_running' /\ current_results'[1].status = "running"
    ]_vars

\* The probe returned 128 after the tests of 512 and 256 failed, and the streaming
\* sweep has started.
C31_Witness ==
    /\ is_running /\ phase = "streaming"
    /\ probe_failed = 2 /\ max_supported_tokens = 128
    /\ tests_started = 4

\* The qualifying token sizes above the base size, in ascending order.
LargerQualifying(supported, base) ==
    SelectSeq(<<32, 128, 512>>, LAMBDA t : t <= supported /\ t > base)

\* C32: the token-size scaling phase is entered only with the stop flag clear; its
\* base configuration is the one the selection rule picks from the tests recorded
\* by the streaming and batch sweeps, and stays the same through the phase; its
\* k-th test has the concurrency, streaming mode and batch size of that
\* configuration and the k-th qualifying token size above the base size; while no
\* stop is requested each test is followed by the test of the next size, and the
\* phase ends after the last one; when the sweeps end with the stop flag clear and
\* a larger qualifying size exists, the phase is entered.
C32_TokenScaling ==
    [][/\ (phase # "token" /\ phase' = "token") =>
              /\ ~should_stop
              /\ phase \in {"streaming", "batch"}
              /\ loop_i' = 1
              /\ best_config' = FindBestConfig(current_results'[1].tests)
              /\ \A k \in 1..Len(current_results'[1].tests) :
                     current_results'[1].tests[k].token_size = token_sizes'[1]
       /\ (phase = "token" /\ phase' = "token") =>
              /\ test' # test => ~should_stop
              /\ best_config' = best_config
              /\ loop_i' = IF test' = test THEN loop_i ELSE loop_i + 1
              /\ token_sizes' = token_sizes /\ max_supported_tokens' = max_supported_tokens
       /\ (phase' = "token") =>
              /\ loop_i' \in 1..Len(LargerQualifying(max_supported_tokens', token_sizes'[1]))
              /\ Get(test') =
                     [concurrency |-> Get(best_config').concurrency,
                      streaming |-> Get(best_config').streaming,
                      batch_size |-> Get(best_config').batch_size,
                      token_size |->
                          LargerQualifying(max_supported_tokens', token_sizes'[1])[loop_i'],
                      total_requests |-> 10]
       /\ (phase = "token" /\ phase' = "none") =>
              should_stop \/ loop_i = Len(LargerQualifying(max_supported_tokens, token_sizes[1]))
       /\ (phase \in {"streaming", "batch"} /\ phase' = "none") =>
              should_stop \/ LargerQualifying(max_supported_tokens, token_sizes[1]) = <<>>
    ]_vars

\* The second test of the phase is in flight: the best configuration is the
\* streaming test of concurrency 1, the size is 512.
C32_Witness ==
    /\ is_running /\ phase = "token" /\ loop_i = 2
    /\ Len(current_results[1].tests) = 3
    /\ current_results[1].tests[3].token_size = 128
    /\ Get(best_config) = current_results[1].tests[1]
    /\ Get(test).token_size = 512 /\ Get(test).streaming

\* C33: whatever the configuration (total_requests >= 0, concurrency_level >= 1,
\* batched or not), a run that was entered ends, with a result or with a run
\* failure; by then every request has returned and every slot of the gate is free
\* again, so none is left waiting.
C33_RunEnds ==
    (exec_pc = "idle") ~>
        (/\ Finished
         /\ Outstanding = 0
         /\ n_done = config.total_requests
         /\ sem_value = config.concurrency_level)

\* A batched run with more requests than slots returned a result although one of
\* its requests failed.
C33_Witness ==
    /\ exec_pc = "returned" /\ UsesBatches
    /\ config.total_requests > config.concurrency_level
    /\ n_failed > 0
    /\ sem_value = config.concurrency_level

\* reset_peaks is run (by the run that is entered).
ResetStep == \E r \in 1..MaxRuns : run_pc[r] = "idle" /\ run_pc'[r] = "reset"

\* calculate_tps is gone through, by a sampling thread or by a collect_metrics of
\* the event loop thread.
CalcStep == \E a \in 0..MaxThreads : Pos(a) = "calc" /\ Pos(a)' = "snap"

\* C34: but for a reset, peak_tps never decreases; it is at least every rate a tick
\* derived since the last reset; a tick that derives a rate takes it over the
\* tokens counted since the last tick, (tokens_count - tokens_last_window), and
\* sets tokens_last_window to tokens_count, and nothing else moves
\* tokens_last_window forward: the windows add up to no more than the tokens
\* counted, so no token is in two windows.
C34_PeakAndWindows ==
    [][/\ ~ResetStep => peak_tps' >= peak_tps
       /\ peak_tps' >= derived_max'
       /\ tokens_last_window' <= tokens_count'
       /\ windows_sum' = tokens_last_window'
       /\ windows_sum' <= tokens_count'
       /\ (CalcStep /\ windows_sum' # windows_sum) =>
              /\ tokens_last_window' = tokens_count
              /\ windows_sum' - windows_sum = tokens_count - tokens_last_window
              /\ \E w \in {v \in WindowSizes : v > 0} :
                     peak_tps' = Max(peak_tps, (tokens_count - tokens_last_window) \div w)
       /\ (~CalcStep /\ ~ResetStep) => tokens_last_window' = tokens_last_window
    ]_vars

\* Two windows of one token each were derived since the last reset.
C34_Witness ==
    /\ windows_sum = 2 /\ tokens_last_window = 2 /\ tokens_count = 2
    /\ peak_tps = 1 /\ derived_max = 1

\* The hardware probe of a tick failed: the tool is missing, it ended with a
\* non-zero exit code, or a numeric field of its output is missing or not a number.
FailedProbe(res) ==
    \/ res.kind \in {"missing", "exit"}
    \/ /\ res.kind = "output"
       /\ \E i \in 1..6 : i > Len(res.values) \/ res.values[i] = None

\* a (a sampling thread, or 0 for the event loop thread) goes through a call of
\* get_gpu_metrics, or finds no GPU to query.
ProbeStep(a) == Pos(a) = "tick" /\ (Pos(a)' = "calc" \/ gpu_seen'[a] # gpu_seen[a])

\* stop_collector is called (in the finally block of a run).
StopStep == \E r \in 1..MaxRuns : run_pc[r] = "active" /\ run_pc'[r] \in {"stopping", "done"}

\* C35: a tick whose hardware probe fails has an empty reading, leaves the GPU
\* peaks as they were, and goes on with the rest of the tick: the thread is not
\* ended, the running flag and the runs are untouched.  A sampling thread only ends
\* at the test of its loop, with the running flag cleared, and only stop_collector
\* clears the flag.
C35_FailedProbeAbsorbed ==
    [][/\ \A t \in 0..MaxThreads :
              (ProbeStep(t) /\ FailedProbe(Get(probe'))) =>
                  /\ GetGpuMetrics(Get(probe')) = None
                  /\ peak_gpu_util' = peak_gpu_util /\ peak_gpu_mem' = peak_gpu_mem
                  /\ running' = running /\ run_pc' = run_pc
                  /\ \A u \in 1..MaxThreads : Alive(u) => Alive(u)'
       /\ \A t \in 1..MaxThreads :
              (Alive(t) /\ ~Alive(t)') => (th[t] = "check" /\ ~running /\ th'[t] = "dead")
       /\ \A t \in 1..MaxThreads :
              (th[t] = "check" /\ running /\ th'[t] # th[t]) => th'[t] = "tick"
       /\ (running /\ ~running') => StopStep
    ]_vars

\* A probe printed a line with an unparsable power draw; the GPU peaks of an
\* earlier tick are in place and the thread goes on to calculate_tps.
C35_Witness ==
    \E t \in 1..MaxThreads :
        /\ th[t] = "calc" /\ running
        /\ probe # None /\ Get(probe).kind = "output" /\ FailedProbe(Get(probe))
        /\ Len(Get(probe).values) = 7 /\ Get(probe).values[1] # None
        /\ peak_gpu_util = 50 /\ peak_gpu_mem = 1000

\* C36: whichever the backend, a run with streaming off and a configured batch size
\* b > 1 issues its requests in sequential batches of b: a request of a batch is
\* issued only when all the requests of the batches before it have returned, and
\* no more than b requests are inside the gate at a time.
C36_SameBatchingRule ==
    (exec_pc = "running" /\ ~config.stream /\ config.batch_size > 1) =>
        /\ n_issued > 0 =>
               n_done >= ((n_issued - 1) \div config.batch_size) * config.batch_size
        /\ InsideGate <= config.batch_size

\* C37: a search that is running ends, whether or not a stop is requested; when it
\* ends is_running is false, no test is in flight and the session is marked
\* "completed" or "error"; a call of run_auto_benchmark is rejected only while a
\* search is running, and an accepted call sets is_running and clears should_stop.
C37_SearchEnds ==
    /\ is_running ~> ~is_running
    /\ [][/\ (is_running /\ ~is_running') =>
                 /\ test' = <<>> /\ phase' = "none"
                 /\ current_results'[1].status \in {"completed", "error"}
           /\ \A r \in 1..MaxStarts :
                 (req[r] = "started" /\ req'[r] # "started") =>
                     IF is_running
                     THEN req'[r] = "crashed" /\ UNCHANGED << is_running, should_stop >>
                     ELSE req'[r] = "searching" /\ is_running' /\ ~should_stop'
       ]_vars

\* A second search is running with the stop flag clear, after a first one that was
\* asked to stop has ended.
C37_Witness ==
    /\ req[1] = "done" /\ req[2] = "searching"
    /\ is_running /\ ~should_stop
    /\ stop_reply = "stopping"

\* The selection of a search that ended "completed" is None or a recorded test
\* that finished without an error.
OptimalWithoutError ==
    Selected =>
        LET r == current_results[1].optimal_config
        IN r # None => (Get(r) \in Range(RecordedTests) /\ ~Get(r).error)

\* The base configuration of the token-size scaling phase is no error entry.
TokenBaseWithoutError == (phase = "token" /\ best_config # None) => ~Get(best_config).error

\* C38: when a search ends "completed", optimal_config is None or one of the
\* recorded tests that finished without an error; an error entry is never selected
\* as the optimal configuration, nor used as the base configuration of the
\* token-size scaling phase.
C38_NoErrorEntrySelected == OptimalWithoutError /\ TokenBaseWithoutError

\* The highest token count one request can add to total_tokens.
LargestRequestTokens ==
    LET amounts == UNION {{o.tokens : o \in OutcomeTable[b, s]} : b \in Backends, s \in BOOLEAN}
    IN CHOOSE m \in amounts : \A a \in amounts : a <= m

\* C39: in every executor variant, between the steps of the requests,
\* success_count is the number of latency samples recorded, and total_tokens is
\* made of the token counts of the requests that have such a sample: it is 0
\* while there is none and at most one request's count per sample.
C39_CountsAgree ==
    exec_pc \in {"running", "returned", "raised"} =>
        /\ success_count = Len(latencies)
        /\ latencies = <<>> => total_tokens = 0
        /\ total_tokens <= Len(latencies) * LargestRequestTokens

\* The test in flight belongs to the streaming sweep, the batch sweep or the
\* token-size scaling.
SearchTestInFlight == is_running /\ test # <<>> /\ phase \in {"streaming", "batch", "token"}

\* C40: every test of the streaming sweep, the batch sweep and the token-size
\* scaling has a concurrency taken from CONCURRENCY_STEPS and at most
\* MAX_CONCURRENCY, a batch size not above its concurrency, batch size 1 when it
\* is streaming (in the test and in the configuration handed to the executor),
\* and a token size not above the size the capacity probe returned.
C40_TestsWithinLimits ==
    SearchTestInFlight =>
        LET t == Get(test)
        IN /\ t.concurrency \in Range(CONCURRENCY_STEPS)
           /\ t.concurrency <= MAX_CONCURRENCY
           /\ t.batch_size <= t.concurrency
           /\ t.streaming => (t.batch_size = 1 /\ TestRunConfig(t).batch_size = 1)
           /\ TestRunConfig(t).batch_size <= TestRunConfig(t).concurrency_level
           /\ t.token_size <= max_supported_tokens

\* A batch-sweep test whose batch size is its concurrency, above 1, in a search
\* whose probe returned less than its largest size.
C40_Witness ==
    /\ SearchTestInFlight
    /\ phase = "batch"
    /\ Get(test).batch_size = Get(test).concurrency /\ Get(test).batch_size > 1
    /\ max_supported_tokens < ProbeSizes[1]
    /\ Get(test).token_size <= max_supported_tokens

====
